---- MODULE Spec2Model ----
(***************************************************************************)
(* A model of the deterministic robustness / corpus audit engine of        *)
(* mast_freegsnke (robustness/, corpus/).                                   *)
(*                                                                         *)
(* Conventions                                                             *)
(*  - Times are integers in units of 0.01 s, scale factors integers in     *)
(*    units of 0.0001.                                                     *)
(*  - A Python float is an extended rational [num, den] with den >= 0:     *)
(*    den > 0 is the finite value num/den, 1/0 is +inf, -1/0 is -inf and   *)
(*    0/0 is NaN.  Arithmetic is exact (no rounding); the special values   *)
(*    follow IEEE-754 (inf - inf = NaN, inf * 0 = NaN, comparisons with    *)
(*    NaN are false).                                                      *)
(*  - A Python str is a TLA+ string; StrOrder lists the strings of the     *)
(*    model in Python's str order, because TLC cannot compare strings.     *)
(*  - A text built by an f-string or by json.dumps is the tuple of its     *)
(*    parts.                                                               *)
(*  - sha256 is taken to be collision free: a digest is an injective       *)
(*    digit sequence of the hashed text, and digests are ordered as        *)
(*    strings are (lexicographically).                                     *)
(***************************************************************************)
EXTENDS Integers, Sequences, FiniteSets, TLC

(***************************************************************************)
(* Bounds of the model                                                     *)
(***************************************************************************)
MaxRows == 4        \* rows of a per-window scenario table drawn as an input
MaxScore == 3       \* finite scores drawn as inputs are 0..MaxScore

MaxParams == 2      \* entries of a parameter map drawn as an input
MaxDtGrid == 3      \* length of a shift grid drawn as an input
MaxExpandGrid == 2  \* length of an expansion grid drawn as an input
MaxContracts == 2   \* diagnostic contracts of a contract set
MaxRuns == 3        \* run directories handed to build_corpus
MaxWindowRows == 3  \* rows of a per-window summary drawn as an input

VARIABLES
  pc,        \* position of the modelled call
  df, \* per-window scenario table (pandas DataFrame): sequence of ro
  policy, \* selection policy
  green, \* GREEN threshold
  yellow, \* YELLOW threshold
  choice, \* result of select_robust_choice
  stable, \* result of stability_tiering
  s1, \* a scenario descriptor
  s2, \* a second scenario descriptor
  t0, \* baseline window start (0.01 s)
  t1, \* baseline window end (0.01 s)
  dt_grid, \* shift grid
  expand_grid, \* expansion grid
  n_visited, \* number of (dt, expand) pairs already visited
  windows, \* window library built so far
  cset, \* effective contract set of a scenario
  w_start, \* window start passed to the scorer
  w_end, \* window end passed to the scorer
  n_done, \* contracts already visited by the scoring loop
  per_contract, \* per-contract metrics entries
  errors, \* recorded per-contract errors
  summary, \* ScoreSummary returned by the scorer
  base_contracts, \* contracts loaded for the run
  wdef, \* WindowDef of the window being processed
  grid, \* scale grid handed to the generator
  toggle, \* allow_sign_toggle
  w_policy, \* policy of the run
  scenarios, \* generated scenario descriptors
  n_run, \* scenarios already executed
  scenario_dirs, \* <window dir>/scenarios: one entry per directory
  w_df, \* aggregated table of the window
  w_choice, \* robust choice of the window
  w_stable, \* stability scorecard of the window
  invocation, \* robustness_run invocations on the run directory so far
  delta, \* delta_scorecards.json as loaded
  thresholds, \* the six thresholds of the guard
  guard, \* regression_guard.json as written
  fs, \* per run directory: 0 when its robustness directory is missin
  run_dirs, \* run directory list handed to build_corpus
  manifest, \* corpus_manifest.json as written, or the exception raised
  per_window_summary, \* per-window summary rows of a run, in library order
  phase_timeline, \* the phases dict handed to compute_phase_consistency
  phase_thresholds, \* dominant_fraction_green, max_rel_score_drift_green, max_flip
  phase_consistency, \* phase_consistency_scorecard.json as written
  audit_phases, \* phase_timeline.json: its phases list, or None when absent
  audit_meta, \* per_window_summary.csv rows, or None when absent
  audit_windows, \* window directories of robustness_v4/windows, by name
  audit_config, \* PhysicsAuditConfig
  n_audited, \* window directories already audited
  prev_score, \* score of the previous window, or None
  max_violation, \* running maximum of the test values
  per_test_all, \* closure test results so far
  per_window_rows, \* per-window rows with the residual budget written
  scorecard, \* PhysicsScorecard returned, or None
  mfe_contracts, \* names of the contracts robustness_run ran with
  mfe_library, \* robustness_v4/scenario_library.json, or None when absent
  mfe_snapshot, \* diagnostic_contracts_snapshot.json, or None when absent
  mfe_diag_file, \* diagnostic_contracts.json, or None when absent
  mfe_windows, \* window directories: robust choice and scenario directories
  mfe_config, \* ModelFormConfig
  cv_splits, \* cv_splits.json as written
  forward_checks, \* forward_checks.csv rows, or the exception raised
  mfe_scorecard, \* ModelFormScorecard returned, or None
  attr_windows, \* window directories with their aggregated_metrics.csv
  top_k, \* top_k of sensitivity_attribution
  n_attr, \* window directories already visited
  per_family_rows, \* per-window, per-family rows collected so far
  worst_scenarios, \* (score_total, scenario_id, window_id) collected so far
  attribution, \* sensitivity_attribution.json as written
  idx_run_dirs, \* run directories handed to build_corpus
  idx_fs, \* per run directory: robustness_v4 (None, or its files)
  idx_ran, \* run directories on which robustness_run completed
  idx_out, \* corpus out_dir: corpus_manifest.json, shot_index.csv
  idx_result, \* what build_corpus returned or raised
  atlas_out, \* what build_atlas wrote or raised
  atlas_a, \* atlas A: atlas_metrics.csv
  atlas_b, \* atlas B: atlas_metrics.csv
  cmp_thresholds, \* thresholds of the regression guard
  cmp_delta, \* delta_scorecards.json and paired_metrics.csv
  cmp_guard, \* regression_guard.json
  cmp_added, \* the run added to atlas B, with the guard result before it
  cli_args, \* argparse namespace of the regression-guard command
  cli_delta, \* delta_scorecards.json at args.delta
  cli_exit, \* what main() returned or raised
  ord_windows, \* window library of the run
  ord_contracts, \* contracts of the run
  ord_policy, \* policy of the run
  ord_listing, \* per window: scenarios/ entries in creation order
  ord_tables, \* per window: aggregated_metrics.csv, or None
  ord_summary, \* per_window_summary rows in completion order
  ord_out, \* per_window_summary.csv and continuity_metrics.csv
  tri_files, \* paths that exist under the run directory
  tri_done, \* stages that returned normally on the run directory
  tri_aborted, \* a robustness_run raised after creating robustness_v4
  tri_issued, \* scorecards written by the audit stages
  tri_pack, \* the pack built, or None
  tri_result  \* what the last call returned or raised

analysisVars == <<df, policy, green, yellow, choice, stable>>
idVars == <<s1, s2>>
libVars == <<t0, t1, dt_grid, expand_grid, n_visited, windows>>
scoringVars == <<cset, w_start, w_end, n_done, per_contract, errors, summary>>
windowVars == <<base_contracts, wdef, grid, toggle, w_policy, scenarios, n_run, scenario_dirs, w_df, w_choice, w_stable, invocation>>
guardVars == <<delta, thresholds, guard>>
corpusVars == <<fs, run_dirs, manifest>>
phaseVars == <<per_window_summary, phase_timeline, phase_thresholds, phase_consistency>>
auditVars == <<audit_phases, audit_meta, audit_windows, audit_config, n_audited, prev_score, max_violation, per_test_all, per_window_rows, scorecard>>
mfeVars == <<mfe_contracts, mfe_library, mfe_snapshot, mfe_diag_file, mfe_windows, mfe_config, cv_splits, forward_checks, mfe_scorecard>>
attrVars == <<attr_windows, top_k, n_attr, per_family_rows, worst_scenarios, attribution>>
indexVars == <<idx_run_dirs, idx_fs, idx_ran, idx_out, idx_result, atlas_out>>
compareVars == <<atlas_a, atlas_b, cmp_thresholds, cmp_delta, cmp_guard, cmp_added>>
cliVars == <<cli_args, cli_delta, cli_exit>>
orderVars == <<ord_windows, ord_contracts, ord_policy, ord_listing, ord_tables, ord_summary, ord_out>>
triangleVars == <<tri_files, tri_done, tri_aborted, tri_issued, tri_pack, tri_result>>

vars == <<pc, analysisVars, idVars, libVars, scoringVars, windowVars, guardVars, corpusVars, phaseVars, auditVars, mfeVars, attrVars, indexVars, compareVars, cliVars, orderVars, triangleVars>>

None == [none |-> TRUE]

(***************************************************************************)
(* Each specification below drives one part of the state; the rest idles.  *)
(***************************************************************************)
IdleAnalysis == df = None /\ policy = None /\ green = None /\ yellow = None /\ choice = None /\ stable = None

IdleId == s1 = None /\ s2 = None

IdleLibrary == t0 = None /\ t1 = None /\ dt_grid = None /\ expand_grid = None /\ n_visited = None /\ windows = None

IdleScoring == cset = None /\ w_start = None /\ w_end = None /\ n_done = None /\ per_contract = None /\ errors = None /\ summary = None

IdleWindow == base_contracts = None /\ wdef = None /\ grid = None /\ toggle = None /\ w_policy = None /\ scenarios = None /\ n_run = None /\ scenario_dirs = None /\ w_df = None /\ w_choice = None /\ w_stable = None /\ invocation = None

IdleGuard == delta = None /\ thresholds = None /\ guard = None

IdleCorpus == fs = None /\ run_dirs = None /\ manifest = None

IdlePhase == per_window_summary = None /\ phase_timeline = None /\ phase_thresholds = None /\ phase_consistency = None

IdleAudit == audit_phases = None /\ audit_meta = None /\ audit_windows = None /\ audit_config = None /\ n_audited = None /\ prev_score = None /\ max_violation = None /\ per_test_all = None /\ per_window_rows = None /\ scorecard = None

IdleMfe == mfe_contracts = None /\ mfe_library = None /\ mfe_snapshot = None /\ mfe_diag_file = None /\ mfe_windows = None /\ mfe_config = None /\ cv_splits = None /\ forward_checks = None /\ mfe_scorecard = None

IdleAttr == attr_windows = None /\ top_k = None /\ n_attr = None /\ per_family_rows = None /\ worst_scenarios = None /\ attribution = None

IdleIndex == idx_run_dirs = None /\ idx_fs = None /\ idx_ran = None /\ idx_out = None /\ idx_result = None /\ atlas_out = None

IdleCompare == atlas_a = None /\ atlas_b = None /\ cmp_thresholds = None /\ cmp_delta = None /\ cmp_guard = None /\ cmp_added = None

IdleCli == cli_args = None /\ cli_delta = None /\ cli_exit = None

IdleOrder == ord_windows = None /\ ord_contracts = None /\ ord_policy = None /\ ord_listing = None /\ ord_tables = None /\ ord_summary = None /\ ord_out = None

IdleTriangle == tri_files = None /\ tri_done = None /\ tri_aborted = None /\ tri_issued = None /\ tri_pack = None /\ tri_result = None

IdleExceptAnalysis == IdleId /\ IdleLibrary /\ IdleScoring /\ IdleWindow /\ IdleGuard /\ IdleCorpus /\ IdlePhase /\ IdleAudit /\ IdleMfe /\ IdleAttr /\ IdleIndex /\ IdleCompare /\ IdleCli /\ IdleOrder /\ IdleTriangle

exceptAnalysis == <<idVars, libVars, scoringVars, windowVars, guardVars, corpusVars, phaseVars, auditVars, mfeVars, attrVars, indexVars, compareVars, cliVars, orderVars, triangleVars>>

IdleExceptId == IdleAnalysis /\ IdleLibrary /\ IdleScoring /\ IdleWindow /\ IdleGuard /\ IdleCorpus /\ IdlePhase /\ IdleAudit /\ IdleMfe /\ IdleAttr /\ IdleIndex /\ IdleCompare /\ IdleCli /\ IdleOrder /\ IdleTriangle

exceptId == <<analysisVars, libVars, scoringVars, windowVars, guardVars, corpusVars, phaseVars, auditVars, mfeVars, attrVars, indexVars, compareVars, cliVars, orderVars, triangleVars>>

IdleExceptLibrary == IdleAnalysis /\ IdleId /\ IdleScoring /\ IdleWindow /\ IdleGuard /\ IdleCorpus /\ IdlePhase /\ IdleAudit /\ IdleMfe /\ IdleAttr /\ IdleIndex /\ IdleCompare /\ IdleCli /\ IdleOrder /\ IdleTriangle

exceptLibrary == <<analysisVars, idVars, scoringVars, windowVars, guardVars, corpusVars, phaseVars, auditVars, mfeVars, attrVars, indexVars, compareVars, cliVars, orderVars, triangleVars>>

IdleExceptScoring == IdleAnalysis /\ IdleId /\ IdleLibrary /\ IdleWindow /\ IdleGuard /\ IdleCorpus /\ IdlePhase /\ IdleAudit /\ IdleMfe /\ IdleAttr /\ IdleIndex /\ IdleCompare /\ IdleCli /\ IdleOrder /\ IdleTriangle

exceptScoring == <<analysisVars, idVars, libVars, windowVars, guardVars, corpusVars, phaseVars, auditVars, mfeVars, attrVars, indexVars, compareVars, cliVars, orderVars, triangleVars>>

IdleExceptWindow == IdleAnalysis /\ IdleId /\ IdleLibrary /\ IdleScoring /\ IdleGuard /\ IdleCorpus /\ IdlePhase /\ IdleAudit /\ IdleMfe /\ IdleAttr /\ IdleIndex /\ IdleCompare /\ IdleCli /\ IdleOrder /\ IdleTriangle

exceptWindow == <<analysisVars, idVars, libVars, scoringVars, guardVars, corpusVars, phaseVars, auditVars, mfeVars, attrVars, indexVars, compareVars, cliVars, orderVars, triangleVars>>

IdleExceptGuard == IdleAnalysis /\ IdleId /\ IdleLibrary /\ IdleScoring /\ IdleWindow /\ IdleCorpus /\ IdlePhase /\ IdleAudit /\ IdleMfe /\ IdleAttr /\ IdleIndex /\ IdleCompare /\ IdleCli /\ IdleOrder /\ IdleTriangle

exceptGuard == <<analysisVars, idVars, libVars, scoringVars, windowVars, corpusVars, phaseVars, auditVars, mfeVars, attrVars, indexVars, compareVars, cliVars, orderVars, triangleVars>>

IdleExceptCorpus == IdleAnalysis /\ IdleId /\ IdleLibrary /\ IdleScoring /\ IdleWindow /\ IdleGuard /\ IdlePhase /\ IdleAudit /\ IdleMfe /\ IdleAttr /\ IdleIndex /\ IdleCompare /\ IdleCli /\ IdleOrder /\ IdleTriangle

exceptCorpus == <<analysisVars, idVars, libVars, scoringVars, windowVars, guardVars, phaseVars, auditVars, mfeVars, attrVars, indexVars, compareVars, cliVars, orderVars, triangleVars>>

IdleExceptPhase == IdleAnalysis /\ IdleId /\ IdleLibrary /\ IdleScoring /\ IdleWindow /\ IdleGuard /\ IdleCorpus /\ IdleAudit /\ IdleMfe /\ IdleAttr /\ IdleIndex /\ IdleCompare /\ IdleCli /\ IdleOrder /\ IdleTriangle

exceptPhase == <<analysisVars, idVars, libVars, scoringVars, windowVars, guardVars, corpusVars, auditVars, mfeVars, attrVars, indexVars, compareVars, cliVars, orderVars, triangleVars>>

IdleExceptAudit == IdleAnalysis /\ IdleId /\ IdleLibrary /\ IdleScoring /\ IdleWindow /\ IdleGuard /\ IdleCorpus /\ IdlePhase /\ IdleMfe /\ IdleAttr /\ IdleIndex /\ IdleCompare /\ IdleCli /\ IdleOrder /\ IdleTriangle

exceptAudit == <<analysisVars, idVars, libVars, scoringVars, windowVars, guardVars, corpusVars, phaseVars, mfeVars, attrVars, indexVars, compareVars, cliVars, orderVars, triangleVars>>

IdleExceptMfe == IdleAnalysis /\ IdleId /\ IdleLibrary /\ IdleScoring /\ IdleWindow /\ IdleGuard /\ IdleCorpus /\ IdlePhase /\ IdleAudit /\ IdleAttr /\ IdleIndex /\ IdleCompare /\ IdleCli /\ IdleOrder /\ IdleTriangle

exceptMfe == <<analysisVars, idVars, libVars, scoringVars, windowVars, guardVars, corpusVars, phaseVars, auditVars, attrVars, indexVars, compareVars, cliVars, orderVars, triangleVars>>

IdleExceptAttr == IdleAnalysis /\ IdleId /\ IdleLibrary /\ IdleScoring /\ IdleWindow /\ IdleGuard /\ IdleCorpus /\ IdlePhase /\ IdleAudit /\ IdleMfe /\ IdleIndex /\ IdleCompare /\ IdleCli /\ IdleOrder /\ IdleTriangle

exceptAttr == <<analysisVars, idVars, libVars, scoringVars, windowVars, guardVars, corpusVars, phaseVars, auditVars, mfeVars, indexVars, compareVars, cliVars, orderVars, triangleVars>>

IdleExceptIndex == IdleAnalysis /\ IdleId /\ IdleLibrary /\ IdleScoring /\ IdleWindow /\ IdleGuard /\ IdleCorpus /\ IdlePhase /\ IdleAudit /\ IdleMfe /\ IdleAttr /\ IdleCompare /\ IdleCli /\ IdleOrder /\ IdleTriangle

exceptIndex == <<analysisVars, idVars, libVars, scoringVars, windowVars, guardVars, corpusVars, phaseVars, auditVars, mfeVars, attrVars, compareVars, cliVars, orderVars, triangleVars>>

IdleExceptCompare == IdleAnalysis /\ IdleId /\ IdleLibrary /\ IdleScoring /\ IdleWindow /\ IdleGuard /\ IdleCorpus /\ IdlePhase /\ IdleAudit /\ IdleMfe /\ IdleAttr /\ IdleIndex /\ IdleCli /\ IdleOrder /\ IdleTriangle

exceptCompare == <<analysisVars, idVars, libVars, scoringVars, windowVars, guardVars, corpusVars, phaseVars, auditVars, mfeVars, attrVars, indexVars, cliVars, orderVars, triangleVars>>

IdleExceptCli == IdleAnalysis /\ IdleId /\ IdleLibrary /\ IdleScoring /\ IdleWindow /\ IdleGuard /\ IdleCorpus /\ IdlePhase /\ IdleAudit /\ IdleMfe /\ IdleAttr /\ IdleIndex /\ IdleCompare /\ IdleOrder /\ IdleTriangle

exceptCli == <<analysisVars, idVars, libVars, scoringVars, windowVars, guardVars, corpusVars, phaseVars, auditVars, mfeVars, attrVars, indexVars, compareVars, orderVars, triangleVars>>

IdleExceptOrder == IdleAnalysis /\ IdleId /\ IdleLibrary /\ IdleScoring /\ IdleWindow /\ IdleGuard /\ IdleCorpus /\ IdlePhase /\ IdleAudit /\ IdleMfe /\ IdleAttr /\ IdleIndex /\ IdleCompare /\ IdleCli /\ IdleTriangle

exceptOrder == <<analysisVars, idVars, libVars, scoringVars, windowVars, guardVars, corpusVars, phaseVars, auditVars, mfeVars, attrVars, indexVars, compareVars, cliVars, triangleVars>>

IdleExceptTriangle == IdleAnalysis /\ IdleId /\ IdleLibrary /\ IdleScoring /\ IdleWindow /\ IdleGuard /\ IdleCorpus /\ IdlePhase /\ IdleAudit /\ IdleMfe /\ IdleAttr /\ IdleIndex /\ IdleCompare /\ IdleCli /\ IdleOrder

exceptTriangle == <<analysisVars, idVars, libVars, scoringVars, windowVars, guardVars, corpusVars, phaseVars, auditVars, mfeVars, attrVars, indexVars, compareVars, cliVars, orderVars>>

(***************************************************************************)
(* Python floats                                                           *)
(***************************************************************************)
Abs(x) == IF x < 0 THEN -x ELSE x

Sgn(x) == IF x > 0 THEN 1 ELSE IF x < 0 THEN -1 ELSE 0

RECURSIVE Gcd(_, _)
Gcd(a, b) == IF b = 0 THEN a ELSE Gcd(b, a % b)

F(n, d) ==
  IF d = 0 THEN [num |-> Sgn(n), den |-> 0]
  ELSE LET g == Gcd(Abs(n), d) IN [num |-> n \div g, den |-> d \div g]

Zero == F(0, 1)
One == F(1, 1)
Inf == F(1, 0)
NaN == F(0, 0)

IsNaN(a) == a.den = 0 /\ a.num = 0
IsFinite(a) == a.den > 0

FLe(a, b) ==
  /\ ~IsNaN(a)
  /\ ~IsNaN(b)
  /\ IF a.den = 0 /\ b.den = 0 THEN a.num <= b.num
     ELSE a.num * b.den <= b.num * a.den

FLt(a, b) ==
  /\ ~IsNaN(a)
  /\ ~IsNaN(b)
  /\ IF a.den = 0 /\ b.den = 0 THEN a.num < b.num
     ELSE a.num * b.den < b.num * a.den

FEq(a, b) == FLe(a, b) /\ FLe(b, a)

FNeg(a) == [num |-> -a.num, den |-> a.den]

FAdd(a, b) ==
  IF IsNaN(a) \/ IsNaN(b) THEN NaN
  ELSE IF a.den = 0 /\ b.den = 0 THEN (IF a.num = b.num THEN a ELSE NaN)
  ELSE F(a.num * b.den + b.num * a.den, a.den * b.den)

FSub(a, b) == FAdd(a, FNeg(b))

FMul(a, b) == F(a.num * b.num, a.den * b.den)

FDiv(a, b) ==
  F(a.num * b.den * (IF b.num < 0 THEN -1 ELSE 1), a.den * Abs(b.num))

(***************************************************************************)
(* Python strings: order and the digits of a digest                        *)
(***************************************************************************)
StrOrder ==
  << ":", "a", "b", "baseline", "baseline_window_score", "c", "c1",
     "c2", "c3", "c4", "contract_perturbation", "diagnostic_subset",
     "entries", "exp", "family", "global_robust_choice.json",
     "hashes", "leave_out", "leave_out:", "misc", "name", "params",
     "per_window_summary.csv", "phase_consistency_scorecard.json",
     "plots_manifest.json", "robustness_dir", "run_dir", "runs",
     "scale_exp:", "scale_mul", "scale_syn:",
     "sensitivity_attribution.json", "shot", "shot_", "side",
     "sign_toggle", "stability_scorecard.json", "syn", "t_end",
     "t_start", "target", "toggle_sign_exp:", "toggle_sign_syn:",
     "window", "window_id" >>

StrRank(s) == CHOOSE i \in DOMAIN StrOrder : StrOrder[i] = s

StrLess(s, t) == StrRank(s) < StrRank(t)

RECURSIVE SeqLess(_, _)
SeqLess(a, b) ==
  IF b = <<>> THEN FALSE
  ELSE IF a = <<>> THEN TRUE
  ELSE IF Head(a) # Head(b) THEN Head(a) < Head(b)
  ELSE SeqLess(Tail(a), Tail(b))

RECURSIVE ConcatAll(_)
ConcatAll(seqs) ==
  IF seqs = <<>> THEN <<>> ELSE Head(seqs) \o ConcatAll(Tail(seqs))

(***************************************************************************)
(* robustness/schema.py: WindowDef, ScenarioDescriptor                     *)
(***************************************************************************)
\* f"{x:.4f}" of a time x (0.01 s): the number in units of 0.0001
Fmt4(x) == 100 * x

\* f"{s:.3f}" of a scale factor s (0.0001): the number in units of 0.001
Fmt3(s) == (s + 5) \div 10

WindowDef(window_id, t_start, t_end, note) ==
  [window_id |-> window_id, t_start |-> t_start, t_end |-> t_end,
   note |-> note]

ScenarioDescriptor(family, window_id, name, params) ==
  [family |-> family, window_id |-> window_id, name |-> name,
   params |-> params]

to_obj_without_params(d) ==
  << <<"family", d.family>>, <<"window_id", d.window_id>>, <<"name", d.name>> >>

\* A dict is the sequence of its <<key, value>> items in insertion order.
to_obj(d) ==
  << <<"family", d.family>>, <<"window_id", d.window_id>>,
     <<"name", d.name>>, <<"params", d.params>> >>

RECURSIVE InsertByKey(_, _)
InsertByKey(item, sorted) ==
  IF sorted = <<>> THEN <<item>>
  ELSE IF StrLess(item[1], Head(sorted)[1]) THEN <<item>> \o sorted
  ELSE <<Head(sorted)>> \o InsertByKey(item, Tail(sorted))

\* json.dumps(..., sort_keys=True): the items of a dict in key order
RECURSIVE SortKeys(_)
SortKeys(items) ==
  IF items = <<>> THEN <<>>
  ELSE InsertByKey(items[Len(items)], SortKeys(SubSeq(items, 1, Len(items) - 1)))

canonical_json_unsorted(d) == to_obj(d)

canonical_json(d) ==
  LET o == to_obj(d)
  IN SortKeys([i \in DOMAIN o |->
                 IF o[i][1] = "params" THEN <<"params", SortKeys(o[i][2])>>
                 ELSE o[i]])

ValueDigit(k, v) ==
  LET StrValuedKeys == {"leave_out", "target", "side"}
      BoolValuedKeys == {"sign_toggle"}
  IN IF k \in StrValuedKeys THEN StrRank(v)
     ELSE IF k \in BoolValuedKeys THEN (IF v THEN 1 ELSE 0)
     ELSE v

ItemDigits(k, v) ==
  IF k = "family" THEN <<StrRank(v)>>
  ELSE IF k = "name"
    THEN <<Len(v)>> \o [i \in DOMAIN v |-> IF i = 4 THEN v[i] ELSE StrRank(v[i])]
  ELSE IF k = "params"
    THEN <<Len(v)>> \o ConcatAll([i \in DOMAIN v |->
                          <<StrRank(v[i][1]), ValueDigit(v[i][1], v[i][2])>>])
  ELSE v

\* hashlib.sha256(text).hexdigest()[:16]
Sha256Hex16(text) ==
  ConcatAll([i \in DOMAIN text |->
               <<StrRank(text[i][1])>> \o ItemDigits(text[i][1], text[i][2])])

scenario_id(d) == Sha256Hex16(canonical_json(d))

IdLess(a, b) == SeqLess(a, b)

(***************************************************************************)
(* robustness/scenario_generation.py                                       *)
(***************************************************************************)
DefaultScaleGrid == <<9000, 10000, 11000>>

ScalePair(window, c, s) ==
  << ScenarioDescriptor("contract_perturbation", window.window_id,
        <<"scale_exp:", c.name, ":", Fmt3(s)>>,
        << <<"target", c.name>>, <<"side", "exp">>, <<"scale_mul", s>>,
           <<"sign_toggle", FALSE>> >>),
     ScenarioDescriptor("contract_perturbation", window.window_id,
        <<"scale_syn:", c.name, ":", Fmt3(s)>>,
        << <<"target", c.name>>, <<"side", "syn">>, <<"scale_mul", s>>,
           <<"sign_toggle", FALSE>> >>) >>

TogglePair(window, c) ==
  << ScenarioDescriptor("contract_perturbation", window.window_id,
        <<"toggle_sign_exp:", c.name>>,
        << <<"target", c.name>>, <<"side", "exp">>, <<"scale_mul", 10000>>,
           <<"sign_toggle", TRUE>> >>),
     ScenarioDescriptor("contract_perturbation", window.window_id,
        <<"toggle_sign_syn:", c.name>>,
        << <<"target", c.name>>, <<"side", "syn">>, <<"scale_mul", 10000>>,
           <<"sign_toggle", TRUE>> >>) >>

generate_scenarios_for_window(window, contracts, include_contract_perturbations, include_leave_one_out, scale_grid, allow_sign_toggle) ==
  << ScenarioDescriptor("window", window.window_id,
        <<"baseline_window_score">>,
        << <<"t_start", window.t_start>>, <<"t_end", window.t_end>> >>) >>
  \o (IF include_leave_one_out
      THEN [i \in DOMAIN contracts |->
              ScenarioDescriptor("diagnostic_subset", window.window_id,
                 <<"leave_out:", contracts[i].name>>,
                 << <<"leave_out", contracts[i].name>> >>)]
      ELSE <<>>)
  \o (IF include_contract_perturbations
      THEN ConcatAll([i \in DOMAIN contracts |->
              ConcatAll([j \in DOMAIN scale_grid |->
                           ScalePair(window, contracts[i], scale_grid[j])])
              \o (IF allow_sign_toggle
                  THEN TogglePair(window, contracts[i]) ELSE <<>>)])
      ELSE <<>>)

(***************************************************************************)
(* robustness/analysis.py                                                  *)
(***************************************************************************)
RowLessIdDescending(r1, r2) ==
  \/ FLt(r1.score_total, r2.score_total)
  \/ /\ FEq(r1.score_total, r2.score_total)
     /\ IdLess(r2.scenario_id, r1.scenario_id)

\* the sort key ["score_total", "scenario_id"], ascending
RowLess(r1, r2) ==
  \/ FLt(r1.score_total, r2.score_total)
  \/ /\ FEq(r1.score_total, r2.score_total)
     /\ IdLess(r1.scenario_id, r2.scenario_id)

RECURSIVE InsertRow(_, _)
InsertRow(r, sorted) ==
  IF sorted = <<>> THEN <<r>>
  ELSE IF RowLess(r, Head(sorted)) THEN <<r>> \o sorted
  ELSE <<Head(sorted)>> \o InsertRow(r, Tail(sorted))

\* df.sort_values(["score_total", "scenario_id"], kind="mergesort") (stable)
RECURSIVE sort_values(_)
sort_values(t) ==
  IF t = <<>> THEN <<>>
  ELSE InsertRow(t[Len(t)], sort_values(SubSeq(t, 1, Len(t) - 1)))

\* numpy's linear interpolation between two order statistics
Lerp(a, b, t) ==
  LET diff_b_a == FSub(b, a)
  IN IF FLe(F(1, 2), t) THEN FSub(b, FMul(diff_b_a, FSub(One, t)))
     ELSE FAdd(a, FMul(diff_b_a, t))

\* Series.quantile(0.75) of the score_total column of a sorted table
Quantile75(sorted) ==
  LET n == Len(sorted)
      lo == (3 * (n - 1)) \div 4
      hi == IF lo + 2 <= n THEN lo + 2 ELSE n
  IN Lerp(sorted[lo + 1].score_total, sorted[hi].score_total,
          F((3 * (n - 1)) % 4, 4))

\* quantile75 read as "the scenario at the 75th percentile": the last row at
\* or below the threshold instead of the first
select_robust_choice_at_quantile(t, pol) ==
  IF t = <<>> THEN [ok |-> FALSE, error |-> "no scenarios", policy |-> pol]
  ELSE
    LET df2 == sort_values(t)
    IN IF pol = "maximin"
       THEN [ok |-> TRUE, policy |-> pol,
             scenario_id |-> df2[1].scenario_id,
             score_total |-> df2[1].score_total]
       ELSE IF pol = "quantile75"
       THEN LET thr == Quantile75(df2)
                AtOrBelow(r) == FLe(r.score_total, thr)
                cand == SelectSeq(df2, AtOrBelow)
                best == IF cand = <<>> THEN df2[1] ELSE cand[Len(cand)]
            IN [ok |-> TRUE, policy |-> pol, threshold |-> thr,
                scenario_id |-> best.scenario_id,
                score_total |-> best.score_total]
       ELSE [raised |-> "ValueError: unknown policy"]

select_robust_choice(t, pol) ==
  IF t = <<>> THEN [ok |-> FALSE, error |-> "no scenarios", policy |-> pol]
  ELSE
    LET df2 == sort_values(t)
    IN IF pol = "maximin"
       THEN [ok |-> TRUE, policy |-> pol,
             scenario_id |-> df2[1].scenario_id,
             score_total |-> df2[1].score_total]
       ELSE IF pol = "quantile75"
       THEN LET thr == Quantile75(df2)
                AtOrBelow(r) == FLe(r.score_total, thr)
                cand == SelectSeq(df2, AtOrBelow)
                best == IF cand = <<>> THEN df2[1] ELSE cand[1]
            IN [ok |-> TRUE, policy |-> pol, threshold |-> thr,
                scenario_id |-> best.scenario_id,
                score_total |-> best.score_total]
       ELSE [raised |-> "ValueError: unknown policy"]

RECURSIVE ColumnMin(_)
ColumnMin(t) ==
  IF Len(t) = 1 THEN t[1].score_total
  ELSE LET m == ColumnMin(Tail(t))
       IN IF FLe(t[1].score_total, m) THEN t[1].score_total ELSE m

RECURSIVE ColumnMax(_)
ColumnMax(t) ==
  IF Len(t) = 1 THEN t[1].score_total
  ELSE LET m == ColumnMax(Tail(t))
       IN IF FLe(m, t[1].score_total) THEN t[1].score_total ELSE m

TierOfStrict(degradation, g, y) ==
  IF FLt(degradation, g) THEN "GREEN"
  ELSE IF FLe(degradation, y) THEN "YELLOW"
  ELSE "RED"

TierOf(degradation, g, y) ==
  IF FLe(degradation, g) THEN "GREEN"
  ELSE IF FLe(degradation, y) THEN "YELLOW"
  ELSE "RED"

stability_tiering(t, g, y) ==
  IF t = <<>> THEN [ok |-> FALSE, error |-> "no scenarios"]
  ELSE
    LET baseline == ColumnMin(t)
        worst == ColumnMax(t)
    IN IF ~IsFinite(baseline) \/ FLe(baseline, Zero)
       THEN [ok |-> FALSE, error |-> "invalid baseline",
             baseline |-> baseline, worst |-> worst]
       ELSE LET degradation == FDiv(FSub(worst, baseline), baseline)
            IN [ok |-> TRUE, baseline |-> baseline, worst_case |-> worst,
                relative_degradation |-> degradation,
                tier |-> TierOf(degradation, g, y),
                thresholds |-> [green |-> g, yellow |-> y]]

(***************************************************************************)
(* Listing a directory in name order: sorted(dir.iterdir())                *)
(***************************************************************************)
RECURSIVE SortedIds(_)
SortedIds(S) ==
  IF S = {} THEN <<>>
  ELSE LET m == CHOOSE x \in S : \A y \in S \ {x} : IdLess(x, y)
       IN <<m>> \o SortedIds(S \ {m})

(***************************************************************************)
(* SpecAnalysis: select_robust_choice and stability_tiering applied, as    *)
(* robustness_run applies them, to a per-window scenario table.  The table *)
(* is an input: the scenarios of one window with any scores.               *)
(***************************************************************************)
AnalysisWindow == WindowDef(<<Fmt4(0), Fmt4(0)>>, 50, 60, "baseline-shift-expand")

AnalysisScenarios ==
  generate_scenarios_for_window(AnalysisWindow, <<[name |-> "c1"]>>,
                                TRUE, TRUE, DefaultScaleGrid, FALSE)

AnalysisIds ==
  SortedIds({scenario_id(AnalysisScenarios[i]) : i \in DOMAIN AnalysisScenarios})

AnalysisRow(i, score) ==
  LET d == CHOOSE x \in {AnalysisScenarios[j] : j \in DOMAIN AnalysisScenarios} :
             scenario_id(x) = AnalysisIds[i]
  IN [scenario_id |-> AnalysisIds[i], family |-> d.family,
      window_id |-> d.window_id, name |-> d.name, ok |-> IsFinite(score),
      n_scored |-> IF IsFinite(score) THEN 1 ELSE 0, score_total |-> score]

Tables ==
  LET ScoreSet == {F(n, 1) : n \in 0..MaxScore} \cup {Inf}
  IN UNION { { [i \in 1..n |-> AnalysisRow(i, sc[i])] : sc \in [1..n -> ScoreSet] } :
             n \in 0..MaxRows }

Policies == {"maximin", "quantile75"}

InitAnalysis ==
  LET ThresholdPairs == { <<F(1, 2), F(1, 1)>>, <<F(5, 100), F(15, 100)>> }
  IN /\ pc = "select"
     /\ df \in Tables
     /\ policy \in Policies
     /\ \E th \in ThresholdPairs : green = th[1] /\ yellow = th[2]
     /\ choice = None
     /\ stable = None
     /\ IdleExceptAnalysis

SelectRobustChoice ==
  /\ pc = "select"
  /\ choice' = select_robust_choice(df, policy)
  /\ pc' = "tier"
  /\ UNCHANGED <<df, policy, green, yellow, stable>>
  /\ UNCHANGED exceptAnalysis

StabilityTiering ==
  /\ pc = "tier"
  /\ stable' = stability_tiering(df, green, yellow)
  /\ pc' = "done"
  /\ UNCHANGED <<df, policy, green, yellow, choice>>
  /\ UNCHANGED exceptAnalysis

NextAnalysis == SelectRobustChoice \/ StabilityTiering

SpecAnalysis == InitAnalysis /\ [][NextAnalysis]_vars

ScoresOf(t) == {t[i].score_total : i \in DOMAIN t}

LeastOf(S) == CHOOSE x \in S : \A y \in S : FLe(x, y)

GreatestOf(S) == CHOOSE x \in S : \A y \in S : FLe(y, x)

\* C1: for a non-empty table whose minimum score (baseline) is finite and
\* > 0, stability_tiering reports relative_degradation =
\* (max - baseline)/baseline and the tier GREEN when it is <= green, YELLOW
\* when green < it <= yellow, RED when it is > yellow; for a baseline that is
\* <= 0 or not finite it reports ok = False and no tier.
C1_StabilityTier ==
  (pc = "done" /\ df # <<>>) =>
    LET b == LeastOf(ScoresOf(df))
        w == GreatestOf(ScoresOf(df))
        x == FDiv(FSub(w, b), b)
    IN IF IsFinite(b) /\ FLt(Zero, b)
       THEN /\ stable.ok
            /\ stable.relative_degradation = x
            /\ FLe(x, green) => stable.tier = "GREEN"
            /\ (FLt(green, x) /\ FLe(x, yellow)) => stable.tier = "YELLOW"
            /\ FLt(yellow, x) => stable.tier = "RED"
            /\ stable.tier \in {"GREEN", "YELLOW", "RED"}
       ELSE /\ ~stable.ok
            /\ "tier" \notin DOMAIN stable

\* C1 witness: a tier issued exactly at the yellow threshold
C1_Witness ==
  /\ pc = "done"
  /\ stable.ok
  /\ stable.relative_degradation = yellow
  /\ stable.tier = "YELLOW"

RowAtMost(r1, r2) ==
  \/ FLt(r1.score_total, r2.score_total)
  \/ /\ FEq(r1.score_total, r2.score_total)
     /\ (r1.scenario_id = r2.scenario_id \/ IdLess(r1.scenario_id, r2.scenario_id))

Rows(t) == {t[i] : i \in DOMAIN t}

IsChoiceAmong(c, R) ==
  \E r \in R : /\ c.scenario_id = r.scenario_id
               /\ c.score_total = r.score_total
               /\ \A r2 \in R : RowAtMost(r, r2)

\* C4: on a non-empty table, maximin returns the scenario of smallest
\* score_total (smallest scenario_id among equal scores); quantile75
\* returns the smallest-scored scenario at or below the 75th percentile of
\* score_total (same tie-break), or the global minimum when none qualifies.
C4_RobustChoice ==
  (pc \in {"tier", "done"} /\ df # <<>>) =>
    /\ choice.ok
    /\ policy = "maximin" => IsChoiceAmong(choice, Rows(df))
    /\ policy = "quantile75" =>
         LET thr == Quantile75(sort_values(df))
             Q == {r \in Rows(df) : FLe(r.score_total, thr)}
         IN /\ choice.threshold = thr
            /\ IF Q # {} THEN IsChoiceAmong(choice, Q)
               ELSE IsChoiceAmong(choice, Rows(df))

\* C4 witness: quantile75 picks, among tied minimal scores below a finite
\* threshold, the smaller id, and a larger score exists
C4_Witness ==
  /\ pc = "done"
  /\ policy = "quantile75"
  /\ Len(df) >= 3
  /\ IsFinite(choice.threshold)
  /\ \E r \in Rows(df) : FLt(choice.threshold, r.score_total)
  /\ \E r \in Rows(df) : /\ r.score_total = choice.score_total
                         /\ IdLess(choice.scenario_id, r.scenario_id)

(***************************************************************************)
(* SpecScenarioId: two descriptors s1 and s2.  s2 starts as s1 and is      *)
(* rebuilt with its parameter map filled in another order, or with one     *)
(* field or parameter value changed.                                       *)
(***************************************************************************)
ParamKeys == {"a", "b", "c"}
ParamValues == {1, 2}

\* the insertion orders of a dict with the keys K
RECURSIVE KeyOrders(_)
KeyOrders(K) ==
  IF K = {} THEN { <<>> }
  ELSE UNION { { <<k>> \o o : o \in KeyOrders(K \ {k}) } : k \in K }

ParamMaps ==
  UNION { UNION { { [i \in DOMAIN o |-> <<o[i], v[i]>>] : v \in [DOMAIN o -> ParamValues] } :
                  o \in KeyOrders(K) } :
          K \in {K \in SUBSET ParamKeys : Cardinality(K) <= MaxParams} }

IdFamilies == {"window", "diagnostic_subset"}
IdWindows == { <<Fmt4(0), Fmt4(0)>>, <<Fmt4(1), Fmt4(0)>> }
IdNames == { <<"baseline">>, <<"baseline_window_score">> }

InitScenarioId ==
  /\ pc = "ids"
  /\ \E f \in IdFamilies, w \in IdWindows, n \in IdNames, ps \in ParamMaps :
       s1 = ScenarioDescriptor(f, w, n, ps)
  /\ s2 = s1
  /\ IdleExceptId

\* the same dict built with two adjacent insertions exchanged
ReorderParams ==
  /\ pc = "ids"
  /\ \E i \in 1..(Len(s2.params) - 1) :
       s2' = [s2 EXCEPT !.params =
                [j \in DOMAIN s2.params |->
                   IF j = i THEN s2.params[i + 1]
                   ELSE IF j = i + 1 THEN s2.params[i]
                   ELSE s2.params[j]]]
  /\ UNCHANGED <<pc, s1>>
  /\ UNCHANGED exceptId

SetParam ==
  /\ pc = "ids"
  /\ \E i \in DOMAIN s2.params, v \in ParamValues :
       s2' = [s2 EXCEPT !.params[i] = <<s2.params[i][1], v>>]
  /\ UNCHANGED <<pc, s1>>
  /\ UNCHANGED exceptId

SetField ==
  /\ pc = "ids"
  /\ \/ \E f \in IdFamilies : s2' = [s2 EXCEPT !.family = f]
     \/ \E w \in IdWindows : s2' = [s2 EXCEPT !.window_id = w]
     \/ \E n \in IdNames : s2' = [s2 EXCEPT !.name = n]
  /\ UNCHANGED <<pc, s1>>
  /\ UNCHANGED exceptId

NextScenarioId == ReorderParams \/ SetParam \/ SetField

SpecScenarioId == InitScenarioId /\ [][NextScenarioId]_vars

Items(ps) == {ps[i] : i \in DOMAIN ps}

\* equality of the descriptors' contents (Python == on the dataclass:
\* dict equality ignores insertion order)
SameContent(d1, d2) ==
  /\ d1.family = d2.family
  /\ d1.window_id = d2.window_id
  /\ d1.name = d2.name
  /\ Items(d1.params) = Items(d2.params)

\* C2: scenario_id depends only on the descriptor's content: the same
\* content with the parameter keys inserted in another order gives the same
\* id, and a different parameter value, name, family or window_id gives a
\* different id.
C2_ScenarioIdContent ==
  pc = "ids" => ((scenario_id(s1) = scenario_id(s2)) <=> SameContent(s1, s2))

\* C2 witness: the same two parameters inserted in opposite orders
C2_Witness ==
  /\ pc = "ids"
  /\ Len(s1.params) = 2
  /\ s2.params = <<s1.params[2], s1.params[1]>>
  /\ scenario_id(s1) = scenario_id(s2)

(***************************************************************************)
(* robustness/window_library.py                                            *)
(* SpecLibrary: generate_window_library, one step per (dt, expand) pair of *)
(* its nested loops.                                                       *)
(***************************************************************************)
DroppedIfNegative(ts, te) == te < ts

\* if te <= ts: continue
Dropped(ts, te) == te <= ts

\* the (dt, ex) pair of the n-th pass through the inner loop body
PairAt(n) ==
  <<dt_grid[((n - 1) \div Len(expand_grid)) + 1],
    expand_grid[((n - 1) % Len(expand_grid)) + 1]>>

NumPairs == Len(dt_grid) * Len(expand_grid)

GridsUpTo(n) == UNION { [1..m -> {-1, 0, 1}] : m \in 1..n }

InitLibrary ==
  LET BaselineWindows == { <<50, 60>>, <<50, 52>>, <<50, 50>> }
  IN /\ pc = "library"
     /\ \E b \in BaselineWindows : t0 = b[1] /\ t1 = b[2]
     /\ dt_grid \in GridsUpTo(MaxDtGrid)
     /\ expand_grid \in GridsUpTo(MaxExpandGrid)
     /\ n_visited = 0
     /\ windows = <<>>
     /\ IdleExceptLibrary

AppendWindow ==
  /\ pc = "library"
  /\ n_visited < NumPairs
  /\ LET dt == PairAt(n_visited + 1)[1]
         ex == PairAt(n_visited + 1)[2]
         ts == t0 + dt - ex
         te == t1 + dt + ex
     IN /\ ~Dropped(ts, te)
        /\ windows' = Append(windows,
              WindowDef(<<Fmt4(dt), Fmt4(ex)>>, ts, te, "baseline-shift-expand"))
  /\ n_visited' = n_visited + 1
  /\ UNCHANGED <<pc, t0, t1, dt_grid, expand_grid>>
  /\ UNCHANGED exceptLibrary

SkipWindow ==
  /\ pc = "library"
  /\ n_visited < NumPairs
  /\ LET dt == PairAt(n_visited + 1)[1]
         ex == PairAt(n_visited + 1)[2]
     IN Dropped(t0 + dt - ex, t1 + dt + ex)
  /\ n_visited' = n_visited + 1
  /\ UNCHANGED <<pc, t0, t1, dt_grid, expand_grid, windows>>
  /\ UNCHANGED exceptLibrary

ReturnLibrary ==
  /\ pc = "library"
  /\ n_visited = NumPairs
  /\ pc' = "done"
  /\ UNCHANGED libVars
  /\ UNCHANGED exceptLibrary

NextLibrary == AppendWindow \/ SkipWindow \/ ReturnLibrary

SpecLibrary == InitLibrary /\ [][NextLibrary]_vars

IntervalOf(n) ==
  [t_start |-> t0 + PairAt(n)[1] - PairAt(n)[2],
   t_end |-> t1 + PairAt(n)[1] + PairAt(n)[2]]

ValidPairs == {n \in 1..NumPairs : IntervalOf(n).t_end > IntervalOf(n).t_start}

\* the i-th valid pair in grid order
NthValid(i) ==
  CHOOSE n \in ValidPairs : Cardinality({m \in ValidPairs : m <= n}) = i

\* C3: the library holds exactly one window for every grid pair whose
\* shifted and expanded interval has end > start, in (dt, expand) grid
\* order, and none for the other pairs: every window has t_end > t_start and
\* the size is |dt_grid| x |expand_grid| minus the dropped pairs (6 for
\* dt in (-0.01, 0, 0.01), expand in (0, 0.01) around (0.5, 0.6)).
C3_WindowLibrary ==
  pc = "done" =>
    /\ Len(windows) = NumPairs - Cardinality((1..NumPairs) \ ValidPairs)
    /\ \A i \in DOMAIN windows : windows[i].t_end > windows[i].t_start
    /\ \A i \in DOMAIN windows :
         LET n == NthValid(i)
         IN /\ windows[i].t_start = IntervalOf(n).t_start
            /\ windows[i].t_end = IntervalOf(n).t_end
            /\ windows[i].window_id = <<Fmt4(PairAt(n)[1]), Fmt4(PairAt(n)[2])>>
    /\ (t0 = 50 /\ t1 = 60 /\ dt_grid = <<-1, 0, 1>> /\ expand_grid = <<0, 1>>)
         => Len(windows) = 6

\* C3 witness: a finished library that kept some pairs and dropped others
C3_Witness ==
  /\ pc = "done"
  /\ Len(windows) >= 2
  /\ Len(windows) < NumPairs

(***************************************************************************)
(* diagnostic_contracts.py and robustness/scoring.py                       *)
(*                                                                         *)
(* A trace CSV is [columns_ok, t_min, t_max, value]: whether the file can  *)
(* be read and holds the time and value columns, and a constant trace      *)
(* sampled every 0.01 s from t_min to t_max.  For constant traces the      *)
(* residual is constant, so rms = mae = max_abs = |residual| exactly.      *)
(***************************************************************************)
Csv(columns_ok, t_min, t_max, value) ==
  [columns_ok |-> columns_ok, t_min |-> t_min, t_max |-> t_max, value |-> value]

TraceSpec(csv, scale, sign) == [csv |-> csv, scale |-> scale, sign |-> sign]

DiagnosticContract(name, exp, syn) ==
  [name |-> name, dtype |-> "flux_loop", units |-> "Wb", exp |-> exp, syn |-> syn]

\* TraceSpec.apply: (sign * scale) * y; scale is a float, sign is 1 or -1
Apply(trace, yv) == FMul(FMul(F(trace.sign, 1), trace.scale), F(yv, 1))

\* np.abs on a float
FAbs(x) == IF x.num < 0 THEN FNeg(x) ELSE x

\* samples left by the mask: finite and t_start <= t <= t_end
SamplesInWindow(csv, t_start, t_end) ==
  {t \in csv.t_min..csv.t_max : t >= t_start /\ t <= t_end}

MinSamples == 3

\* the body of the try block for one contract: the raised message or the
\* per-contract metrics entry
ContractOutcome(c, t_start, t_end) ==
  IF ~c.exp.csv.columns_ok
  THEN [raised |-> TRUE, message |-> "experimental columns missing"]
  ELSE IF ~c.syn.csv.columns_ok
  THEN [raised |-> TRUE, message |-> "synthetic columns missing"]
  ELSE IF Cardinality(SamplesInWindow(c.exp.csv, t_start, t_end)) < MinSamples
  THEN [raised |-> TRUE,
        message |-> "insufficient experimental points in window after filtering"]
  ELSE LET r == FSub(Apply(c.exp, c.exp.csv.value), Apply(c.syn, c.syn.csv.value))
       IN [raised |-> FALSE,
           entry |-> [name |-> c.name, dtype |-> c.dtype, units |-> c.units,
                      n |-> Cardinality(SamplesInWindow(c.exp.csv, t_start, t_end)),
                      rms |-> FAbs(r), mae |-> FAbs(r), max_abs |-> FAbs(r)]]

RECURSIVE SumRms(_)
SumRms(metrics) ==
  IF metrics = <<>> THEN Zero ELSE FAdd(metrics[1].rms, SumRms(Tail(metrics)))

score_from_metrics_zero_when_empty(metrics) ==
  IF metrics = <<>> THEN Zero
  ELSE FDiv(SumRms(metrics), F(Len(metrics), 1))

\* _score_from_metrics: mean RMS across scored contracts
score_from_metrics(metrics) ==
  IF metrics = <<>> THEN Inf
  ELSE FDiv(SumRms(metrics), F(Len(metrics), 1))

ScoreSummary(n_contracts, metrics, errs) ==
  [ok |-> (Len(errs) = 0 /\ Len(metrics) > 0),
   n_contracts |-> n_contracts,
   n_scored |-> Len(metrics),
   score_total |-> score_from_metrics(metrics),
   errors |-> errs]

(***************************************************************************)
(* SpecScoring: score_contracts_in_window, one loop iteration per step.    *)
(***************************************************************************)
ContractNames == <<"c1", "c2", "c3", "c4">>

\* contract sets: distinct names in any order, any trace pair each
ContractSets ==
  \* the trace pairs a contract of the inputs may point at
  LET TracePairs ==
        { <<TraceSpec(Csv(TRUE, 40, 70, 2), F(10000, 10000), 1), TraceSpec(Csv(TRUE, 40, 70, 1), F(10000, 10000), 1)>>,
          <<TraceSpec(Csv(TRUE, 40, 70, 3), F(9000, 10000), 1), TraceSpec(Csv(TRUE, 40, 70, 1), F(10000, 10000), -1)>>,
          <<TraceSpec(Csv(TRUE, 50, 70, 1), F(10000, 10000), 1), TraceSpec(Csv(TRUE, 40, 70, 1), F(11000, 10000), 1)>>,
          <<TraceSpec(Csv(FALSE, 40, 70, 2), F(10000, 10000), 1), TraceSpec(Csv(TRUE, 40, 70, 1), F(10000, 10000), 1)>>,
          <<TraceSpec(Csv(TRUE, 40, 70, 2), F(10000, 10000), 1), TraceSpec(Csv(FALSE, 40, 70, 1), F(10000, 10000), 1)>>,
          <<TraceSpec(Csv(TRUE, 50, 51, 2), F(10000, 10000), 1), TraceSpec(Csv(TRUE, 40, 70, 1), F(10000, 10000), 1)>> }
  IN UNION { { [i \in 1..n |-> DiagnosticContract(ContractNames[order[i]], tp[i][1], tp[i][2])] :
                 tp \in [1..n -> TracePairs] } :
             <<n, order>> \in { <<k, o>> \in UNION { {k} \X [1..k -> 1..MaxContracts] : k \in 0..MaxContracts } :
                                  \A i, j \in 1..k : i # j => o[i] # o[j] } }

InitScoring ==
  LET ScoringWindows == { <<50, 60>>, <<49, 51>>, <<50, 51>> }
  IN /\ pc = "score"
     /\ cset \in ContractSets
     /\ \E w \in ScoringWindows : w_start = w[1] /\ w_end = w[2]
     /\ n_done = 0
     /\ per_contract = <<>>
     /\ errors = <<>>
     /\ summary = None
     /\ IdleExceptScoring

\* the try block completes: the contract's metrics are appended
ScoreContract ==
  /\ pc = "score"
  /\ n_done < Len(cset)
  /\ ~ContractOutcome(cset[n_done + 1], w_start, w_end).raised
  /\ per_contract' = Append(per_contract, ContractOutcome(cset[n_done + 1], w_start, w_end).entry)
  /\ n_done' = n_done + 1
  /\ UNCHANGED <<pc, cset, w_start, w_end, errors, summary>>
  /\ UNCHANGED exceptScoring

\* the except block: "<name>: <message>" is recorded and the loop goes on
RecordError ==
  /\ pc = "score"
  /\ n_done < Len(cset)
  /\ ContractOutcome(cset[n_done + 1], w_start, w_end).raised
  /\ errors' = Append(errors, <<cset[n_done + 1].name, ": ",
                                ContractOutcome(cset[n_done + 1], w_start, w_end).message>>)
  /\ n_done' = n_done + 1
  /\ UNCHANGED <<pc, cset, w_start, w_end, per_contract, summary>>
  /\ UNCHANGED exceptScoring

ReturnSummary ==
  /\ pc = "score"
  /\ n_done = Len(cset)
  /\ summary' = ScoreSummary(Len(cset), per_contract, errors)
  /\ pc' = "done"
  /\ UNCHANGED <<cset, w_start, w_end, n_done, per_contract, errors>>
  /\ UNCHANGED exceptScoring

NextScoring == ScoreContract \/ RecordError \/ ReturnSummary

SpecScoring == InitScoring /\ [][NextScoring]_vars

\* a contract that can be scored in the window, read off the input files
Scoreable(c) ==
  /\ c.exp.csv.columns_ok
  /\ c.syn.csv.columns_ok
  /\ \E a, b, d \in c.exp.csv.t_min..c.exp.csv.t_max :
       a < b /\ b < d /\ a >= w_start /\ d <= w_end

ScoreableIx == {i \in 1..Len(cset) : Scoreable(cset[i])}

\* |sign_e * scale_e * E - sign_s * scale_s * S| of a contract
RmsOf(c) ==
  F(Abs(c.exp.sign * c.exp.scale.num * c.exp.csv.value * c.syn.scale.den
        - c.syn.sign * c.syn.scale.num * c.syn.csv.value * c.exp.scale.den),
    c.exp.scale.den * c.syn.scale.den)

RECURSIVE SumOver(_)
SumOver(S) ==
  IF S = {} THEN Zero
  ELSE LET i == CHOOSE x \in S : TRUE IN FAdd(RmsOf(cset[i]), SumOver(S \ {i}))

\* C5: every contract of the set yields exactly one outcome, a metrics entry
\* or a recorded error, so n_scored + len(errors) = n_contracts; a failing
\* contract does not stop the later ones from being scored; score_total is
\* the mean RMS of the scored contracts; ok holds exactly when no contract
\* failed and at least one was scored.
C5_ScoreContracts ==
  pc = "done" =>
    /\ summary.n_contracts = Len(cset)
    /\ summary.n_scored + Len(summary.errors) = summary.n_contracts
    /\ summary.n_scored = Len(per_contract)
    /\ [i \in 1..Len(per_contract) |-> per_contract[i].name]
         = [i \in 1..Cardinality(ScoreableIx) |->
              SelectSeq(cset, Scoreable)[i].name]
    /\ [i \in 1..Len(summary.errors) |-> summary.errors[i][1]]
         = [i \in 1..(Len(cset) - Cardinality(ScoreableIx)) |->
              SelectSeq(cset, LAMBDA c : ~Scoreable(c))[i].name]
    /\ (ScoreableIx # {} =>
          /\ IsFinite(summary.score_total)
          /\ FEq(FMul(summary.score_total, F(Cardinality(ScoreableIx), 1)),
                 SumOver(ScoreableIx)))
    /\ (ScoreableIx = {} => summary.score_total = Inf)
    /\ (summary.ok <=> (ScoreableIx = 1..Len(cset) /\ ScoreableIx # {}))

\* a failing contract comes first and a later one is still scored
C5_Witness ==
  /\ pc = "done"
  /\ Len(cset) >= 2
  /\ ~Scoreable(cset[1])
  /\ Scoreable(cset[2])
  /\ summary.n_scored >= 1
  /\ ~summary.ok

(***************************************************************************)
(* robustness/scenario_execution.py and load_scenario_metrics              *)
(***************************************************************************)
\* descriptor.params[key]
ParamGet(params, key) ==
  LET i == CHOOSE j \in DOMAIN params : params[j][1] = key IN params[i][2]

apply_subset(contracts, leave_out) ==
  SelectSeq(contracts, LAMBDA c : c.name # leave_out)

\* scale_mul is carried in units of 0.0001
PerturbTrace(trace, scale_mul, sign_toggle) ==
  [trace EXCEPT !.scale = FMul(trace.scale, F(scale_mul, 10000)),
                !.sign = IF sign_toggle THEN -trace.sign ELSE trace.sign]

apply_contract_perturbation(contracts, target, side, scale_mul, sign_toggle) ==
  IF side \notin {"exp", "syn"} /\ \E i \in DOMAIN contracts : contracts[i].name = target
  THEN [raised |-> "ValueError: invalid side"]
  ELSE [i \in DOMAIN contracts |->
          IF contracts[i].name # target THEN contracts[i]
          ELSE IF side = "exp"
          THEN [contracts[i] EXCEPT !.exp = PerturbTrace(contracts[i].exp, scale_mul, sign_toggle)]
          ELSE [contracts[i] EXCEPT !.syn = PerturbTrace(contracts[i].syn, scale_mul, sign_toggle)]]

\* the whole scoring loop: the summary and the per-contract entries
score_contracts_in_window(contracts, t_start, t_end) ==
  LET scored == SelectSeq(contracts, LAMBDA c : ~ContractOutcome(c, t_start, t_end).raised)
      failed == SelectSeq(contracts, LAMBDA c : ContractOutcome(c, t_start, t_end).raised)
      metrics == [i \in DOMAIN scored |-> ContractOutcome(scored[i], t_start, t_end).entry]
      errs == [i \in DOMAIN failed |->
                 <<failed[i].name, ": ", ContractOutcome(failed[i], t_start, t_end).message>>]
  IN [score |-> ScoreSummary(Len(contracts), metrics, errs), per_contract |-> metrics]

\* the contract variant a scenario is scored on
EffectiveContracts(descriptor, contracts) ==
  IF descriptor.family = "diagnostic_subset"
  THEN apply_subset(contracts, ParamGet(descriptor.params, "leave_out"))
  ELSE IF descriptor.family = "contract_perturbation"
  THEN apply_contract_perturbation(contracts,
         ParamGet(descriptor.params, "target"), ParamGet(descriptor.params, "side"),
         ParamGet(descriptor.params, "scale_mul"),
         ParamGet(descriptor.params, "sign_toggle"))
  ELSE contracts

\* run_scenario: the scenario directory it writes (descriptor.json, metrics.json)
run_scenario(window, descriptor, contracts) ==
  LET res == score_contracts_in_window(EffectiveContracts(descriptor, contracts),
                                       window.t_start, window.t_end)
  IN [sid |-> scenario_id(descriptor),
      descriptor |-> canonical_json(descriptor),
      metrics |-> [scenario_id |-> scenario_id(descriptor),
                   family |-> descriptor.family,
                   window_id |-> descriptor.window_id,
                   name |-> descriptor.name,
                   params |-> descriptor.params,
                   score |-> res.score,
                   per_contract |-> res.per_contract]]

\* writing <scenarios>/<sid>/...: an existing directory of that name is overwritten
WriteDir(dirs, entry) == {e \in dirs : e.sid # entry.sid} \cup {entry}

\* load_scenario_metrics: one row per scenario directory, in sorted(iterdir()) order
load_scenario_metrics(dirs) ==
  LET ids == SortedIds({e.sid : e \in dirs})
  IN [i \in DOMAIN ids |->
        LET mm == (CHOOSE e \in dirs : e.sid = ids[i]).metrics
        IN [scenario_id |-> mm.scenario_id, family |-> mm.family,
            window_id |-> mm.window_id, name |-> mm.name,
            ok |-> mm.score.ok, n_scored |-> mm.score.n_scored,
            score_total |-> mm.score.score_total]]

(***************************************************************************)
(* SpecWindow: the body of robustness_run's window loop for one window,    *)
(* in a window directory that does not exist before the run.  The scale    *)
(* grid is an input because it is a parameter of the generator.            *)
(***************************************************************************)
WindowContractSets ==
  LET WindowTracePairs ==
        { <<TraceSpec(Csv(TRUE, 40, 70, 2), One, 1), TraceSpec(Csv(TRUE, 40, 70, 1), One, 1)>>,
          <<TraceSpec(Csv(TRUE, 40, 70, 3), One, 1), TraceSpec(Csv(TRUE, 40, 70, 3), One, 1)>>,
          <<TraceSpec(Csv(FALSE, 40, 70, 2), One, 1), TraceSpec(Csv(TRUE, 40, 70, 1), One, 1)>> }
  IN UNION { { [i \in 1..n |-> DiagnosticContract(ContractNames[i], tp[i][1], tp[i][2])] :
                 tp \in [1..n -> WindowTracePairs] } : n \in 0..MaxContracts }

DefaultGreen == F(5, 100)
DefaultYellow == F(15, 100)

InitWindow ==
  LET WindowDefs ==
        { WindowDef(<<Fmt4(0), Fmt4(0)>>, 50, 60, "baseline-shift-expand"),
          WindowDef(<<Fmt4(-20), Fmt4(0)>>, 30, 40, "baseline-shift-expand") }
      ScaleGrids == { DefaultScaleGrid, <<10000, 10004>>, <<9000>>, <<10000, 10000>> }
  IN /\ pc = "generate"
     /\ base_contracts \in WindowContractSets
     /\ wdef \in WindowDefs
     /\ grid \in ScaleGrids
     /\ toggle \in BOOLEAN
     /\ w_policy \in Policies
     /\ scenarios = <<>>
     /\ n_run = 0
     /\ scenario_dirs = {}
     /\ w_df = None
     /\ w_choice = None
     /\ w_stable = None
     /\ invocation = 1
     /\ IdleExceptWindow

GenerateScenarios ==
  /\ pc = "generate"
  /\ scenarios' = generate_scenarios_for_window(wdef, base_contracts, TRUE, TRUE, grid, toggle)
  /\ pc' = "run"
  /\ UNCHANGED <<base_contracts, wdef, grid, toggle, w_policy, n_run, scenario_dirs,
                 w_df, w_choice, w_stable, invocation>>
  /\ UNCHANGED exceptWindow

RunScenario ==
  /\ pc = "run"
  /\ n_run < Len(scenarios)
  /\ scenario_dirs' = WriteDir(scenario_dirs, run_scenario(wdef, scenarios[n_run + 1], base_contracts))
  /\ n_run' = n_run + 1
  /\ UNCHANGED <<pc, base_contracts, wdef, grid, toggle, w_policy, scenarios,
                 w_df, w_choice, w_stable, invocation>>
  /\ UNCHANGED exceptWindow

\* aggregate, choose and tier, as the loop body does after the last scenario:
\* aggregated_metrics.csv is written before select_robust_choice is called,
\* and an exception of select_robust_choice ends the run there
AggregateWindow ==
  /\ pc = "run"
  /\ n_run = Len(scenarios)
  /\ w_df' = load_scenario_metrics(scenario_dirs)
  /\ LET chosen == select_robust_choice(w_df', w_policy)
     IN IF "raised" \in DOMAIN chosen
        THEN /\ pc' = "raised"
             /\ UNCHANGED <<w_choice, w_stable>>
        ELSE /\ w_choice' = chosen
             /\ w_stable' = stability_tiering(w_df', DefaultGreen, DefaultYellow)
             /\ pc' = "done"
  /\ UNCHANGED <<base_contracts, wdef, grid, toggle, w_policy, scenarios, n_run,
                 scenario_dirs, invocation>>
  /\ UNCHANGED exceptWindow

NextWindow == GenerateScenarios \/ RunScenario \/ AggregateWindow

SpecWindow == InitWindow /\ [][NextWindow]_vars

ZeroScored == {e \in scenario_dirs : e.metrics.score.n_scored = 0}

\* C6: a scenario in which no contract scored is a row of the window's
\* table with ok = False and score_total = +inf, and the window's robust
\* choice is never that scenario, whatever the sibling scenarios scored.
C6_ZeroScoredNeverChosen ==
  pc = "done" =>
    \A e \in ZeroScored :
      /\ \E i \in DOMAIN w_df :
           /\ w_df[i].scenario_id = e.sid
           /\ w_df[i].ok = FALSE
           /\ w_df[i].score_total = Inf
      /\ ~(w_choice.ok /\ w_choice.scenario_id = e.sid)

\* every scenario of the window scored no contract and one of them is chosen
C6_Witness ==
  /\ pc = "done"
  /\ Len(base_contracts) >= 1
  /\ ZeroScored = scenario_dirs
  /\ w_choice.ok
  /\ w_choice.score_total = Inf
  /\ \E e \in ZeroScored : e.sid = w_choice.scenario_id

DistinctFactors == \A i, j \in DOMAIN grid : i # j => grid[i] # grid[j]

ExpectedScenarios ==
  1 + Len(base_contracts) + 2 * Len(base_contracts) * Len(grid)
    + (IF toggle THEN 2 * Len(base_contracts) ELSE 0)

FamilyCount(f) == Cardinality({i \in DOMAIN scenarios : scenarios[i].family = f})

PerturbationCount(name, side, factor, toggled) ==
  Cardinality({i \in DOMAIN scenarios :
                 /\ scenarios[i].family = "contract_perturbation"
                 /\ ParamGet(scenarios[i].params, "target") = name
                 /\ ParamGet(scenarios[i].params, "side") = side
                 /\ ParamGet(scenarios[i].params, "scale_mul") = factor
                 /\ ParamGet(scenarios[i].params, "sign_toggle") = toggled})

\* what generate_scenarios_for_window is to return
GeneratedAsCounted ==
  /\ Len(scenarios) = ExpectedScenarios
  /\ FamilyCount("window") = 1
  /\ FamilyCount("diagnostic_subset") = Len(base_contracts)
  /\ \A i \in DOMAIN base_contracts :
       Cardinality({k \in DOMAIN scenarios :
                    /\ scenarios[k].family = "diagnostic_subset"
                    /\ ParamGet(scenarios[k].params, "leave_out") = base_contracts[i].name}) = 1
  /\ FamilyCount("contract_perturbation")
       = ExpectedScenarios - 1 - Len(base_contracts)
  /\ \A i \in DOMAIN base_contracts : \A side \in {"exp", "syn"} :
       /\ \A j \in DOMAIN grid :
            PerturbationCount(base_contracts[i].name, side, grid[j], FALSE) = 1
       /\ PerturbationCount(base_contracts[i].name, side, 10000, TRUE)
            = (IF toggle THEN 1 ELSE 0)
  /\ \A i, j \in DOMAIN scenarios :
       i # j => scenario_id(scenarios[i]) # scenario_id(scenarios[j])

\* C7: for N contracts with unique names and S distinct scale factors the
\* generator yields 1 window baseline, N leave-one-out scenarios and 2*N*S
\* scale perturbations (one per contract, side and factor), plus 2*N sign
\* toggles only when allow_sign_toggle is set; the scenario ids are pairwise
\* distinct, so the window's scenario directories number exactly as many.
C7_ScenarioCount ==
  /\ (pc = "run" /\ n_run = 0 /\ DistinctFactors) => GeneratedAsCounted
  /\ (pc \in {"run", "done"} /\ DistinctFactors) =>
       /\ Len(scenarios) = ExpectedScenarios
       /\ Cardinality(scenario_dirs) = n_run
       /\ (pc = "done" =>
             /\ Cardinality(scenario_dirs) = ExpectedScenarios
             /\ {e.sid : e \in scenario_dirs}
                  = {scenario_id(scenarios[i]) : i \in DOMAIN scenarios}
             /\ Len(w_df) = ExpectedScenarios)

\* two contracts, two factors printed alike (1.000), sign toggles on
C7_Witness ==
  /\ pc = "done"
  /\ Len(base_contracts) = 2
  /\ grid = <<10000, 10004>>
  /\ toggle
  /\ Cardinality(scenario_dirs) = 15

(***************************************************************************)
(* corpus/regression_guard.py                                              *)
(*                                                                         *)
(* A tier-count dict is a function from the tiers present to their counts; *)
(* a median is a float or None.  A reason is the tuple of the parts of its *)
(* message: <<text, increase, threshold>>.                                 *)
(***************************************************************************)
\* d.get(k, default)
DictGet(d, k, default) == IF k \in DOMAIN d THEN d[k] ELSE default

\* float(b) - float(a) when both medians are present, else None
Increase(med) ==
  IF med.median_A # None /\ med.median_B # None
  THEN FSub(med.median_B, med.median_A) ELSE None

CheckShortCircuit(st, fails, reason) ==
  IF fails /\ st.ok THEN [ok |-> FALSE, reasons |-> Append(st.reasons, reason)]
  ELSE st

\* if <increase> > <threshold>: ok = False; reasons.append(...)
Check(st, fails, reason) ==
  IF fails THEN [ok |-> FALSE, reasons |-> Append(st.reasons, reason)]
  ELSE st

CountCheck(st, section, tier, text, max_increase) ==
  LET inc == DictGet(section.tier_counts_B, tier, 0) - DictGet(section.tier_counts_A, tier, 0)
  IN Check(st, inc > max_increase, <<text, inc, max_increase>>)

MedianCheck(st, med, text, max_increase) ==
  LET inc == Increase(med)
  IN Check(st, inc # None /\ FLt(max_increase, inc), <<text, inc, max_increase>>)

regression_guard(dl, th) ==
  LET st0 == [ok |-> TRUE, reasons |-> <<>>]
      st1 == CountCheck(st0, dl, "RED", "RED tier increase", th.max_red_increase)
      st2 == MedianCheck(st1, dl.relative_degradation,
                         "Median relative degradation increase",
                         th.max_median_degradation_increase)
      st3 == IF dl.physics = None THEN st2
             ELSE CountCheck(st2, dl.physics, "PHYSICS-RED", "PHYSICS-RED tier increase",
                             th.max_physics_red_increase)
      st4 == IF dl.physics = None THEN st3
             ELSE MedianCheck(st3, dl.physics.max_violation,
                              "Median physics max-violation increase",
                              th.max_physics_median_violation_increase)
      st5 == IF dl.model_form = None THEN st4
             ELSE CountCheck(st4, dl.model_form, "MFE-RED", "MFE-RED tier increase",
                             th.max_mfe_red_increase)
      st6 == IF dl.model_form = None THEN st5
             ELSE MedianCheck(st5, dl.model_form.worst_relative_degradation,
                              "Median MFE worst-relative-degradation increase",
                              th.max_mfe_median_worst_rel_deg_increase)
  IN [ok |-> st6.ok, reasons |-> st6.reasons, thresholds |-> th]

(***************************************************************************)
(* SpecGuard: regression_guard on a delta record of a two-run comparison.  *)
(***************************************************************************)
TierCounts ==
  { [t \in {"GREEN", "YELLOW"} |-> 1], [t \in {"YELLOW", "RED"} |-> 1],
    [t \in {"RED"} |-> 2], [t \in {"GREEN"} |-> 2] }

Medians(a, b) == [median_A |-> a, median_B |-> b]

SectionMedianPairs ==
  { Medians(None, None), Medians(F(1, 10), F(1, 10)),
    Medians(F(1, 10), F(3, 10)), Medians(F(3, 10), F(1, 10)) }

PhysicsSections ==
  LET PhysicsTierCounts ==
        { [t \in {"PHYSICS-GREEN", "PHYSICS-RED"} |-> 1], [t \in {"PHYSICS-GREEN"} |-> 2] }
  IN {None} \cup { [tier_counts_A |-> a, tier_counts_B |-> b, max_violation |-> mv] :
                     a \in PhysicsTierCounts, b \in PhysicsTierCounts, mv \in SectionMedianPairs }

ModelFormSections ==
  LET ModelFormTierCounts ==
        { [t \in {"MFE-GREEN", "MFE-RED"} |-> 1], [t \in {"MFE-GREEN"} |-> 2] }
  IN {None} \cup { [tier_counts_A |-> a, tier_counts_B |-> b, worst_relative_degradation |-> mv] :
                     a \in ModelFormTierCounts, b \in ModelFormTierCounts, mv \in SectionMedianPairs }

Thresholds(r, m, pr, pm, mr, mm) ==
  [max_red_increase |-> r, max_median_degradation_increase |-> m,
   max_physics_red_increase |-> pr, max_physics_median_violation_increase |-> pm,
   max_mfe_red_increase |-> mr, max_mfe_median_worst_rel_deg_increase |-> mm]

InitGuard ==
  LET MedianPairs ==
        { Medians(None, None), Medians(F(1, 10), None), Medians(F(1, 10), F(1, 10)),
          Medians(F(1, 10), F(3, 10)), Medians(F(3, 10), F(1, 10)), Medians(Inf, Inf) }
      ThresholdChoices ==
        { Thresholds(0, Zero, 0, Zero, 0, Zero),
          Thresholds(1, F(2, 10), 1, F(2, 10), 1, F(2, 10)),
          Thresholds(0, F(2, 10), 1, Zero, 0, F(2, 10)),
          Thresholds(1, Zero, 0, F(2, 10), 1, Zero),
          Thresholds(-1, F(-1, 10), -1, Zero, 0, Zero) }
  IN /\ pc = "guard"
     /\ \E a \in TierCounts, b \in TierCounts, rd \in MedianPairs,
           phy \in PhysicsSections, mfe \in ModelFormSections :
          delta = [tier_counts_A |-> a, tier_counts_B |-> b, relative_degradation |-> rd,
                   physics |-> phy, model_form |-> mfe]
     /\ thresholds \in ThresholdChoices
     /\ guard = None
     /\ IdleExceptGuard

RegressionGuard ==
  /\ pc = "guard"
  /\ guard' = regression_guard(delta, thresholds)
  /\ pc' = "done"
  /\ UNCHANGED <<delta, thresholds>>
  /\ UNCHANGED exceptGuard

NextGuard == RegressionGuard

SpecGuard == InitGuard /\ [][NextGuard]_vars

\* B minus A of a tier's count, a missing tier counting as 0
CountIncrease(section, tier) ==
  (IF tier \in DOMAIN section.tier_counts_B THEN section.tier_counts_B[tier] ELSE 0)
  - (IF tier \in DOMAIN section.tier_counts_A THEN section.tier_counts_A[tier] ELSE 0)

\* B minus A of two medians exceeds the limit (never when one is missing)
MedianExceeds(med, limit) ==
  /\ med.median_A # None
  /\ med.median_B # None
  /\ FLt(limit, FSub(med.median_B, med.median_A))

\* the checks, in the order evaluated, that exceed their threshold
Exceeded ==
  SelectSeq(
    << <<"RED tier increase",
         CountIncrease(delta, "RED") > thresholds.max_red_increase>>,
       <<"Median relative degradation increase",
         MedianExceeds(delta.relative_degradation, thresholds.max_median_degradation_increase)>>,
       <<"PHYSICS-RED tier increase",
         delta.physics # None
           /\ CountIncrease(delta.physics, "PHYSICS-RED") > thresholds.max_physics_red_increase>>,
       <<"Median physics max-violation increase",
         delta.physics # None
           /\ MedianExceeds(delta.physics.max_violation,
                            thresholds.max_physics_median_violation_increase)>>,
       <<"MFE-RED tier increase",
         delta.model_form # None
           /\ CountIncrease(delta.model_form, "MFE-RED") > thresholds.max_mfe_red_increase>>,
       <<"Median MFE worst-relative-degradation increase",
         delta.model_form # None
           /\ MedianExceeds(delta.model_form.worst_relative_degradation,
                            thresholds.max_mfe_median_worst_rel_deg_increase)>> >>,
    LAMBDA c : c[2])

\* C8: every check is evaluated whatever the earlier ones found: reasons
\* holds exactly one entry for each check whose B-minus-A increase exceeds
\* its threshold (physics and model-form checks only when their section is
\* present), ok is False exactly when reasons is non-empty, and A tiers
\* {GREEN, YELLOW} against B tiers {YELLOW, RED} with max_red_increase = 0
\* give ok = False with the RED-count reason.
C8_GuardReasons ==
  pc = "done" =>
    /\ [i \in DOMAIN guard.reasons |-> guard.reasons[i][1]]
         = [i \in DOMAIN Exceeded |-> Exceeded[i][1]]
    /\ (guard.ok = FALSE <=> guard.reasons # <<>>)
    /\ guard.ok \in BOOLEAN
    /\ ((/\ delta.tier_counts_A = [t \in {"GREEN", "YELLOW"} |-> 1]
         /\ delta.tier_counts_B = [t \in {"YELLOW", "RED"} |-> 1]
         /\ thresholds.max_red_increase = 0)
        => /\ guard.ok = FALSE
           /\ guard.reasons[1] = <<"RED tier increase", 1, 0>>)

\* the example of the claim with two more checks failing after the first
C8_Witness ==
  /\ pc = "done"
  /\ delta.tier_counts_A = [t \in {"GREEN", "YELLOW"} |-> 1]
  /\ delta.tier_counts_B = [t \in {"YELLOW", "RED"} |-> 1]
  /\ thresholds.max_red_increase = 0
  /\ Len(guard.reasons) >= 3
  /\ ~guard.ok

(***************************************************************************)
(* corpus/schema.py and corpus/corpus_build.py                             *)
(*                                                                         *)
(* A resolved run directory is [parent, stem, digits]: the path            *)
(* "/<parent>/<stem><digits>", digits being a sequence of decimal digits   *)
(* (empty when the name carries none).  Python's None shot is NoShot.      *)
(***************************************************************************)
RunDir(parent, stem, digits) == [parent |-> parent, stem |-> stem, digits |-> digits]

\* str(run_dir), as the sequence its string order is decided by
PathChars(p) == <<StrRank(p.parent), StrRank(p.stem)>> \o p.digits

PathLess(p, q) == SeqLess(PathChars(p), PathChars(q))

RECURSIVE DigitsValue(_)
DigitsValue(ds) ==
  IF ds = <<>> THEN 0 ELSE 10 * DigitsValue(SubSeq(ds, 1, Len(ds) - 1)) + ds[Len(ds)]

NoShot == -1

\* re.search(r"shot_(\d+)", str(run_dir))
infer_shot(p) ==
  IF p.stem = "shot_" /\ p.digits # <<>> THEN DigitsValue(p.digits) ELSE NoShot

REQUIRED_ROBUSTNESS_FILES ==
  << "per_window_summary.csv", "global_robust_choice.json", "stability_scorecard.json",
     "phase_consistency_scorecard.json", "sensitivity_attribution.json",
     "plots_manifest.json" >>

\* sha256_file of an artifact: decided by the content, i.e. file name and version
sha256_file(fn, version) == <<StrRank(fn), version>>

\* CorpusEntry.from_run_dir; version 0 stands for a missing robustness directory
from_run_dir(p, version) ==
  IF version = 0
  THEN [raised |-> "FileNotFoundError: robustness directory not found"]
  ELSE [run_dir |-> p,
        shot |-> infer_shot(p),
        robustness_dir |-> <<p, "robustness_v4">>,
        hashes |-> [i \in DOMAIN REQUIRED_ROBUSTNESS_FILES |->
                      <<REQUIRED_ROBUSTNESS_FILES[i],
                        sha256_file(REQUIRED_ROBUSTNESS_FILES[i], version)>>]]

\* 10**12 and a shot number, as <<millions, rest>> so that both fit
ShotKey(e) ==
  IF e.shot = NoShot THEN <<1000000, 0>>
  ELSE <<e.shot \div 1000000, e.shot % 1000000>>

\* key=lambda x: (x.shot if x.shot is not None else 10**12, x.run_dir)
EntryLess(e1, e2) ==
  \/ SeqLess(ShotKey(e1), ShotKey(e2))
  \/ ShotKey(e1) = ShotKey(e2) /\ PathLess(e1.run_dir, e2.run_dir)

RECURSIVE InsertEntry(_, _)
InsertEntry(e, sorted) ==
  IF sorted = <<>> THEN <<e>>
  ELSE IF EntryLess(e, Head(sorted)) THEN <<e>> \o sorted
  ELSE <<Head(sorted)>> \o InsertEntry(e, Tail(sorted))

sorted_entries_as_given(entries) == entries

\* sorted(entries, key=...): stable, ascending
RECURSIVE sorted_entries(_)
sorted_entries(entries) ==
  IF entries = <<>> THEN <<>>
  ELSE InsertEntry(entries[Len(entries)],
                   sorted_entries(SubSeq(entries, 1, Len(entries) - 1)))

\* canonical_json of the payload: keys sorted at every level
corpus_canonical_json(payload) ==
  << <<"entries", [i \in DOMAIN payload |-> SortKeys(payload[i])]>> >>

\* collision-free: the digest is identified by the text it digests
sha256_text(text) == [sha256 |-> text]

corpus_id(entries) ==
  LET es == sorted_entries(entries)
  IN sha256_text(corpus_canonical_json(
       [i \in DOMAIN es |->
          << <<"run_dir", es[i].run_dir>>, <<"shot", es[i].shot>>,
             <<"robustness_dir", es[i].robustness_dir>>,
             <<"hashes", SortKeys(es[i].hashes)>> >>]))

\* build_corpus: the manifest written, or the exception of the first bad entry
build_corpus(dirs, versions) ==
  LET entries == [i \in DOMAIN dirs |-> from_run_dir(dirs[i], versions[dirs[i]])]
  IN IF \E i \in DOMAIN dirs : versions[dirs[i]] = 0
     THEN [raised |-> "FileNotFoundError"]
     ELSE [corpus_id |-> corpus_id(entries),
           n |-> Len(entries),
           entries |-> entries]

(***************************************************************************)
(* SpecCorpus: build_corpus on a list of run directories.                  *)
(***************************************************************************)
RunDirs ==
  { RunDir("runs", "shot_", <<2>>), RunDir("runs", "shot_", <<1, 0>>),
    RunDir("a", "shot_", <<2>>), RunDir("runs", "misc", <<>>) }

InitCorpus ==
  LET ArtifactVersions == 0..2
      RunLists == UNION { [1..n -> RunDirs] : n \in 1..MaxRuns }
  IN /\ pc = "build"
     /\ fs \in [RunDirs -> ArtifactVersions]
     /\ run_dirs \in RunLists
     /\ manifest = None
     /\ IdleExceptCorpus

BuildCorpus ==
  /\ pc = "build"
  /\ manifest' = build_corpus(run_dirs, fs)
  /\ pc' = "done"
  /\ UNCHANGED <<fs, run_dirs>>
  /\ UNCHANGED exceptCorpus

NextCorpus == BuildCorpus

SpecCorpus == InitCorpus /\ [][NextCorpus]_vars

\* the reorderings of the run directory list
Reorderings ==
  { [i \in DOMAIN run_dirs |-> run_dirs[f[i]]] :
      f \in { g \in [DOMAIN run_dirs -> DOMAIN run_dirs] :
                \A i, j \in DOMAIN run_dirs : i # j => g[i] # g[j] } }

Built == pc = "done" /\ "corpus_id" \in DOMAIN manifest

\* C9: the corpus built from a list of run directories has the corpus_id
\* that building from any reordering of the list yields.
C9_CorpusIdPermutation ==
  Built => \A other \in Reorderings :
             build_corpus(other, fs).corpus_id = manifest.corpus_id

\* three distinct directories, two of one shot, given out of sorted order
C9_Witness ==
  /\ Built
  /\ Len(run_dirs) = 3
  /\ \A i, j \in 1..3 : i # j => run_dirs[i] # run_dirs[j]
  /\ infer_shot(run_dirs[2]) = infer_shot(run_dirs[3])
  /\ PathLess(run_dirs[3], run_dirs[2])
  /\ infer_shot(run_dirs[1]) > infer_shot(run_dirs[2])

(***************************************************************************)
(* robustness/phase_segmentation.py and robustness/phase_consistency.py    *)
(***************************************************************************)
PhaseDef(phase, t_start, t_end) == [phase |-> phase, t_start |-> t_start, t_end |-> t_end]

DefaultPre == 2
DefaultPost == 2

segment_phases_from_window(win, pre, post) ==
  << PhaseDef("ramp_up", win.t_start - pre, win.t_start),
     PhaseDef("flat_top", win.t_start, win.t_end),
     PhaseDef("ramp_down", win.t_end, win.t_end + post) >>

NoPhase == "None"

\* mid = 0.5 * (t_start + t_end)
MidOf(row) == F(row.t_start + row.t_end, 2)

\* _phase_for_mid: the first phase with a <= x < b
RECURSIVE phase_for_mid(_, _)
phase_for_mid(x, phases) ==
  IF phases = <<>> THEN NoPhase
  ELSE IF FLe(F(Head(phases).t_start, 1), x) /\ FLt(x, F(Head(phases).t_end, 1))
  THEN Head(phases).phase
  ELSE phase_for_mid(x, Tail(phases))

assign_windows_to_phases(per_window, phases) ==
  [i \in DOMAIN per_window |->
     [window_id |-> per_window[i].window_id,
      t_start |-> per_window[i].t_start,
      t_end |-> per_window[i].t_end,
      scenario_id |-> per_window[i].scenario_id,
      score_total |-> per_window[i].score_total,
      t_mid |-> MidOf(per_window[i]),
      phase |-> phase_for_mid(MidOf(per_window[i]), phases)]]

\* str order of "w_dt{dt:+.4f}_ex{ex:.4f}": '+' < '-' < digits, then magnitude
WindowIdKey(wid) ==
  << IF wid[1] >= 0 THEN 0 ELSE 1, Abs(wid[1]),
     IF wid[2] < 0 THEN 0 ELSE 1, Abs(wid[2]) >>

WindowIdLess(w1, w2) == SeqLess(WindowIdKey(w1), WindowIdKey(w2))

RECURSIVE InsertByWindowId(_, _)
InsertByWindowId(r, sorted) ==
  IF sorted = <<>> THEN <<r>>
  ELSE IF WindowIdLess(r.window_id, Head(sorted).window_id) THEN <<r>> \o sorted
  ELSE <<Head(sorted)>> \o InsertByWindowId(r, Tail(sorted))

\* sort_values(["window_id"], kind="mergesort")
RECURSIVE sort_by_window_id(_)
sort_by_window_id(t) ==
  IF t = <<>> THEN <<>>
  ELSE InsertByWindowId(t[Len(t)], sort_by_window_id(SubSeq(t, 1, Len(t) - 1)))

\* value_counts()[k]
CountOf(dph, k) == Cardinality({i \in DOMAIN dph : dph[i].scenario_id = k})

MaxCount(dph) ==
  CHOOSE n \in 1..Len(dph) :
    /\ \E i \in DOMAIN dph : CountOf(dph, dph[i].scenario_id) = n
    /\ \A i \in DOMAIN dph : CountOf(dph, dph[i].scenario_id) <= n

\* sorted(dom_candidates)[0]
DominantScenario(dph) ==
  CHOOSE k \in {dph[i].scenario_id : i \in DOMAIN dph} :
    /\ CountOf(dph, k) = MaxCount(dph)
    /\ \A i \in DOMAIN dph :
         CountOf(dph, dph[i].scenario_id) = MaxCount(dph)
           => (dph[i].scenario_id = k \/ StrLess(k, dph[i].scenario_id))

\* (smax - smin) / smin if smin > 0 else inf
RelDrift(dph) ==
  IF FLt(Zero, ColumnMin(dph))
  THEN FDiv(FSub(ColumnMax(dph), ColumnMin(dph)), ColumnMin(dph))
  ELSE Inf

Flips(dph) == Cardinality({i \in 2..Len(dph) : dph[i].scenario_id # dph[i - 1].scenario_id})

FlipRate(dph) == F(Flips(dph), IF Len(dph) - 1 > 1 THEN Len(dph) - 1 ELSE 1)

PhaseLabelLenient(dominant_fraction, rel_drift, flip_rate, th) ==
  IF FLe(th.dominant_fraction_green, dominant_fraction)
       \/ FLe(rel_drift, th.max_rel_score_drift_green)
  THEN "PHASE-CONSISTENT"
  ELSE IF FLe(flip_rate, th.max_flip_rate_yellow) THEN "PHASE-DRIFTING"
  ELSE "PHASE-BREAKING"

PhaseLabel(dominant_fraction, rel_drift, flip_rate, th) ==
  IF FLe(th.dominant_fraction_green, dominant_fraction)
       /\ FLe(rel_drift, th.max_rel_score_drift_green)
  THEN "PHASE-CONSISTENT"
  ELSE IF FLe(flip_rate, th.max_flip_rate_yellow) THEN "PHASE-DRIFTING"
  ELSE "PHASE-BREAKING"

\* one entry of out_phases
PhaseEntry(ph, df_assigned, th) ==
  LET dph == sort_by_window_id(SelectSeq(df_assigned, LAMBDA r : r.phase = ph))
  IN IF dph = <<>>
     THEN [phase |-> ph, ok |-> FALSE, error |-> "no windows assigned"]
     ELSE [phase |-> ph, ok |-> TRUE,
           n_windows |-> Len(dph),
           dominant_scenario_id |-> DominantScenario(dph),
           dominant_fraction |-> F(MaxCount(dph), Len(dph)),
           relative_score_drift |-> RelDrift(dph),
           flip_rate |-> FlipRate(dph),
           label |-> PhaseLabel(F(MaxCount(dph), Len(dph)), RelDrift(dph), FlipRate(dph), th),
           thresholds |-> th]

\* order = {"PHASE-BREAKING": 2, "PHASE-DRIFTING": 1, "PHASE-CONSISTENT": 0}
Severity(label) ==
  IF label = "PHASE-BREAKING" THEN 2
  ELSE IF label = "PHASE-DRIFTING" THEN 1
  ELSE IF label = "PHASE-CONSISTENT" THEN 0
  ELSE 99

NoLabel == "None"

\* sorted(labels, key=order, reverse=True)[0], or None without labels
GlobalLabel(out_phases) ==
  LET labelled == SelectSeq(out_phases, LAMBDA p : p.ok)
  IN IF labelled = <<>> THEN NoLabel
     ELSE labelled[CHOOSE i \in DOMAIN labelled :
                     /\ \A j \in DOMAIN labelled :
                          Severity(labelled[j].label) <= Severity(labelled[i].label)
                     /\ \A j \in 1..(i - 1) :
                          Severity(labelled[j].label) < Severity(labelled[i].label)].label

compute_phase_consistency(per_window_df, phases, th) ==
  IF per_window_df = <<>> THEN [ok |-> FALSE, error |-> "per_window_df empty"]
  ELSE LET df_assigned == assign_windows_to_phases(per_window_df, phases)
           out_phases == [i \in DOMAIN phases |-> PhaseEntry(phases[i].phase, df_assigned, th)]
       IN [ok |-> TRUE, method |-> "phase_midpoint_assignment",
           global_label |-> GlobalLabel(out_phases), phases |-> out_phases]

(***************************************************************************)
(* SpecPhase: the phase-consistency step of robustness_run on a per-window *)
(* summary: rows of library windows around the baseline [0.50, 0.60], each *)
(* with the scenario chosen for it and its score.                          *)
(***************************************************************************)
PhaseBaseline == WindowDef(<<0, 0>>, 50, 60, "from inputs/window.json")

\* <<dt, ex>> of the candidate windows, in library order
PhaseWindowGrid == << <<-8, 0>>, <<-5, 0>>, <<0, 0>>, <<5, 0>>, <<6, 1>> >>

PhaseWindow(k) ==
  WindowDef(<<Fmt4(PhaseWindowGrid[k][1]), Fmt4(PhaseWindowGrid[k][2])>>,
            PhaseBaseline.t_start + PhaseWindowGrid[k][1] - PhaseWindowGrid[k][2],
            PhaseBaseline.t_end + PhaseWindowGrid[k][1] + PhaseWindowGrid[k][2],
            "baseline-shift-expand")

PhaseScenarioIds == {"a", "b"}

\* index sets of the candidate windows, as increasing sequences
WindowChoices ==
  { SortedIds({<<k>> : k \in K}) :
      K \in { X \in SUBSET DOMAIN PhaseWindowGrid :
                X # {} /\ Cardinality(X) <= MaxWindowRows } }

SummaryRow(w, sid, score) ==
  [window_id |-> w.window_id, t_start |-> w.t_start, t_end |-> w.t_end,
   scenario_id |-> sid, score_total |-> score]

Summaries ==
  LET PhaseScores == {Zero, One, F(11, 10), Inf}
  IN UNION { { [i \in DOMAIN ks |-> SummaryRow(PhaseWindow(ks[i][1]), sid[i], sc[i])] :
                 sid \in [DOMAIN ks -> PhaseScenarioIds], sc \in [DOMAIN ks -> PhaseScores] } :
             ks \in WindowChoices }

PhaseThresholds(g, d, y) ==
  [dominant_fraction_green |-> g, max_rel_score_drift_green |-> d,
   max_flip_rate_yellow |-> y]

InitPhase ==
  LET PhaseTimelines ==
        { segment_phases_from_window(PhaseBaseline, DefaultPre, DefaultPost),
          << PhaseDef("ramp_up", 45, 56), PhaseDef("flat_top", 50, 62),
             PhaseDef("ramp_down", 60, 62) >> }
      PhaseThresholdChoices ==
        { PhaseThresholds(F(8, 10), F(1, 10), F(4, 10)),
          PhaseThresholds(F(2, 3), F(5, 100), F(1, 2)) }
  IN /\ pc = "phase"
     /\ per_window_summary \in Summaries
     /\ phase_timeline \in PhaseTimelines
     /\ phase_thresholds \in PhaseThresholdChoices
     /\ phase_consistency = None
     /\ IdleExceptPhase

\* per_window_df = DataFrame(per_window_summary).sort_values(["window_id"]);
\* phase_consistency = compute_phase_consistency(per_window_df, phases)
ComputePhaseConsistency ==
  /\ pc = "phase"
  /\ phase_consistency' =
       compute_phase_consistency(sort_by_window_id(per_window_summary),
                                 phase_timeline, phase_thresholds)
  /\ pc' = "done"
  /\ UNCHANGED <<per_window_summary, phase_timeline, phase_thresholds>>
  /\ UNCHANGED exceptPhase

NextPhase == ComputePhaseConsistency

SpecPhase == InitPhase /\ [][NextPhase]_vars

\* twice the midpoint of a window lies in [a, b) of phase j
MidIn(row, j) ==
  /\ 2 * phase_timeline[j].t_start <= row.t_start + row.t_end
  /\ row.t_start + row.t_end < 2 * phase_timeline[j].t_end

\* windows assigned to phase j: midpoint in it and in no earlier phase
AssignedTo(j) ==
  {i \in DOMAIN per_window_summary :
     /\ MidIn(per_window_summary[i], j)
     /\ \A k \in 1..(j - 1) : ~MidIn(per_window_summary[i], k)}

\* the label the reported figures of a phase call for
LabelFor(entry) ==
  IF /\ FLe(phase_thresholds.dominant_fraction_green, entry.dominant_fraction)
     /\ FLe(entry.relative_score_drift, phase_thresholds.max_rel_score_drift_green)
  THEN "PHASE-CONSISTENT"
  ELSE IF FLe(entry.flip_rate, phase_thresholds.max_flip_rate_yellow)
  THEN "PHASE-DRIFTING"
  ELSE "PHASE-BREAKING"

Rank(label) ==
  CASE label = "PHASE-CONSISTENT" -> 0
    [] label = "PHASE-DRIFTING" -> 1
    [] label = "PHASE-BREAKING" -> 2

LabelledPhases == {j \in DOMAIN phase_timeline : AssignedTo(j) # {}}

\* C10: every phase that has a window assigned (by midpoint, half-open
\* interval, first match) is labelled PHASE-CONSISTENT when its
\* dominant_fraction >= dominant_fraction_green and its relative score
\* drift <= max_rel_score_drift_green, else PHASE-DRIFTING when its
\* flip_rate <= max_flip_rate_yellow, else PHASE-BREAKING; global_label is
\* the most severe of those labels.
C10_PhaseLabels ==
  pc = "done" =>
    /\ phase_consistency.ok
    /\ Len(phase_consistency.phases) = Len(phase_timeline)
    /\ \A j \in DOMAIN phase_timeline :
         LET entry == phase_consistency.phases[j]
         IN /\ entry.phase = phase_timeline[j].phase
            /\ entry.ok <=> j \in LabelledPhases
            /\ j \in LabelledPhases =>
                 /\ entry.n_windows = Cardinality(AssignedTo(j))
                 /\ entry.label = LabelFor(entry)
                 /\ \E k \in PhaseScenarioIds :
                      /\ entry.dominant_fraction
                           = F(Cardinality({i \in AssignedTo(j) :
                                              per_window_summary[i].scenario_id = k}),
                               Cardinality(AssignedTo(j)))
                      /\ \A k2 \in PhaseScenarioIds :
                           Cardinality({i \in AssignedTo(j) :
                                          per_window_summary[i].scenario_id = k2})
                             <= Cardinality({i \in AssignedTo(j) :
                                               per_window_summary[i].scenario_id = k})
    /\ (LabelledPhases # {} =>
          /\ \E j \in LabelledPhases :
               phase_consistency.global_label = phase_consistency.phases[j].label
          /\ \A j \in LabelledPhases :
               Rank(phase_consistency.phases[j].label)
                 <= Rank(phase_consistency.global_label))
    /\ (LabelledPhases = {} => phase_consistency.global_label = NoLabel)

\* a window on a phase boundary, two labelled phases, the worse label reported
C10_Witness ==
  /\ pc = "done"
  /\ Cardinality(LabelledPhases) = 2
  /\ \E i \in DOMAIN per_window_summary :
       per_window_summary[i].t_start + per_window_summary[i].t_end = 2 * 60
  /\ \E j \in LabelledPhases : phase_consistency.phases[j].label = "PHASE-CONSISTENT"
  /\ phase_consistency.global_label = "PHASE-BREAKING"

\* C11: whenever compute_phase_consistency returns ok=True, every reported
\* dominant_fraction lies in [0, 1] and global_label is one of
\* PHASE-CONSISTENT, PHASE-DRIFTING, PHASE-BREAKING.
C11_PhaseBounds ==
  (pc = "done" /\ phase_consistency.ok) =>
    /\ \A j \in DOMAIN phase_consistency.phases :
         phase_consistency.phases[j].ok =>
           /\ FLe(Zero, phase_consistency.phases[j].dominant_fraction)
           /\ FLe(phase_consistency.phases[j].dominant_fraction, One)
    /\ phase_consistency.global_label
         \in {"PHASE-CONSISTENT", "PHASE-DRIFTING", "PHASE-BREAKING"}

\* a non-empty summary none of whose window midpoints lies in a phase:
\* ok=True is returned with no labelled phase and global_label None
C11_Witness ==
  /\ pc = "done"
  /\ per_window_summary # <<>>
  /\ phase_consistency.ok
  /\ LabelledPhases = {}
  /\ \A j \in DOMAIN phase_consistency.phases : ~phase_consistency.phases[j].ok
  /\ phase_consistency.global_label = NoLabel

(***************************************************************************)
(* SpecRerun: robustness_run invoked repeatedly on one run directory whose *)
(* window library is the single window w_dt+0.0000_ex0.0000.  The window   *)
(* directory and its scenarios directory are created with exist_ok=True    *)
(* and never emptied, so what an invocation left there is still there when *)
(* the next one starts.  The policy is passed through unchecked until      *)
(* select_robust_choice is called.                                         *)
(***************************************************************************)
MaxInvocations == 2

\* contracts, scale grid, allow_sign_toggle and policy of one invocation
RerunInputs ==
  LET c1 == DiagnosticContract("c1", TraceSpec(Csv(TRUE, 40, 70, 2), One, 1),
                               TraceSpec(Csv(TRUE, 40, 70, 1), One, 1))
      c2 == DiagnosticContract("c2", TraceSpec(Csv(TRUE, 40, 70, 3), One, 1),
                               TraceSpec(Csv(TRUE, 40, 70, 1), One, 1))
  IN [contracts : {<<c1>>, <<c1, c2>>},
      grid : {<<9000>>, <<9000, 11000>>},
      toggle : BOOLEAN,
      policy : Policies \cup {"median"}]

InitRerun ==
  /\ pc = "generate"
  /\ \E inp \in RerunInputs :
       /\ base_contracts = inp.contracts
       /\ grid = inp.grid
       /\ toggle = inp.toggle
       /\ w_policy = inp.policy
  /\ wdef = WindowDef(<<Fmt4(0), Fmt4(0)>>, 50, 60, "baseline-shift-expand")
  /\ scenarios = <<>>
  /\ n_run = 0
  /\ scenario_dirs = {}
  /\ w_df = None
  /\ w_choice = None
  /\ w_stable = None
  /\ invocation = 1
  /\ IdleExceptWindow

\* a further robustness_run on the same run directory, after the previous
\* one returned or raised: the files of the window directory stay
Reinvoke ==
  /\ pc \in {"done", "raised"}
  /\ invocation < MaxInvocations
  /\ \E inp \in RerunInputs :
       /\ base_contracts' = inp.contracts
       /\ grid' = inp.grid
       /\ toggle' = inp.toggle
       /\ w_policy' = inp.policy
  /\ scenarios' = <<>>
  /\ n_run' = 0
  /\ invocation' = invocation + 1
  /\ pc' = "generate"
  /\ UNCHANGED <<wdef, scenario_dirs, w_df, w_choice, w_stable>>
  /\ UNCHANGED exceptWindow

NextRerun == GenerateScenarios \/ RunScenario \/ AggregateWindow \/ Reinvoke

SpecRerun == InitRerun /\ [][NextRerun]_vars

\* the scenario directories after executing scs[1..k] in an empty directory
RECURSIVE FreshDirs(_, _)
FreshDirs(scs, k) ==
  IF k = 0 THEN {}
  ELSE WriteDir(FreshDirs(scs, k - 1), run_scenario(wdef, scs[k], base_contracts))

\* the aggregated table of one invocation with the current inputs in a
\* fresh directory
FreshTable ==
  LET scs == generate_scenarios_for_window(wdef, base_contracts, TRUE, TRUE, grid, toggle)
  IN load_scenario_metrics(FreshDirs(scs, Len(scs)))

\* C12: after any sequence of invocations on the same run directory the
\* window's aggregated_metrics.csv, robust_choice.json and
\* stability_scorecard.json equal those of a single invocation with the
\* last invocation's inputs in a fresh directory (nothing of an earlier
\* invocation is merged in).
C12_RerunOverwrites ==
  pc = "done" =>
    /\ w_df = FreshTable
    /\ w_choice = select_robust_choice(FreshTable, w_policy)
    /\ w_stable = stability_tiering(FreshTable, DefaultGreen, DefaultYellow)

\* a second invocation with fewer scenarios than the first has completed and
\* its table still holds a scenario only the first invocation generated
C12_Witness ==
  /\ pc = "done"
  /\ invocation = 2
  /\ \E i \in DOMAIN w_df :
       \A k \in DOMAIN scenarios : scenario_id(scenarios[k]) # w_df[i].scenario_id
  /\ Len(w_df) > Len(FreshTable)

\* C13: an unknown selection policy makes robustness_run fail before any
\* work is done: when the error is raised no scenario has been executed and
\* no artifact has been written.
C13_UnknownPolicyFailsFirst ==
  (w_policy \notin Policies /\ invocation = 1) =>
    /\ scenario_dirs = {}
    /\ w_df = None

\* the first invocation, with an unknown policy, raised only after all
\* scenarios of the window ran and aggregated_metrics.csv was written
C13_Witness ==
  /\ pc = "raised"
  /\ invocation = 1
  /\ w_policy \notin Policies
  /\ scenario_dirs # {}
  /\ Len(w_df) = Len(scenarios)
  /\ w_choice = None

(***************************************************************************)
(* physics_audit: closures.py, budget.py, audit.py                         *)
(*                                                                         *)
(* A JSON object is a record; "k in obj" is k \in DOMAIN obj.  An absent   *)
(* file and a Python None are both None.  Python's max(a, b) keeps a       *)
(* unless b > a, and min(a, b) keeps a unless b < a, which decides what a  *)
(* NaN operand does.                                                       *)
(***************************************************************************)
PyMax(a, b) == IF FLt(a, b) THEN b ELSE a

PyMin(a, b) == IF FLt(b, a) THEN b ELSE a

\* _tier
PhysicsTier(value, green_, yellow_) ==
  IF FLe(value, green_) THEN "PHYSICS-GREEN"
  ELSE IF FLe(value, yellow_) THEN "PHYSICS-YELLOW"
  ELSE "PHYSICS-RED"

\* load_window_metrics: the two artifacts where present
load_window_metrics(wdir) ==
  [stability_scorecard |-> wdir.stability_scorecard, robust_choice |-> wdir.robust_choice]

\* payload.get(key) or {}
OrEmpty(obj) == IF obj = None THEN [absent |-> TRUE] ELSE obj

\* abs(prev_score) > 1e-12 is "prev_score # 0" for every value carried here
closure_test_continuity_drift(prev, curr) ==
  IF prev = None \/ curr = None THEN None
  ELSE FDiv(FAbs(FSub(curr, prev)), IF FLt(Zero, FAbs(prev)) THEN FAbs(prev) ELSE One)

closure_test_worstcase_spread(sc) ==
  IF "relative_degradation" \in DOMAIN sc THEN sc.relative_degradation ELSE None

\* times are in 0.01 s, so 1e-6 s is 1/10000
closure_test_regime_boundary_spike(mid_t, bounds, drift) ==
  IF mid_t = None \/ drift = None THEN None
  ELSE LET dur == PyMax(FSub(bounds[2], bounds[1]), F(1, 10000))
           d == FDiv(PyMin(FAbs(FSub(mid_t, bounds[1])), FAbs(FSub(mid_t, bounds[2]))), dur)
       IN PyMin(FDiv(drift, FAdd(d, F(5, 100))), F(10, 1))

\* (float(p["start"]), float(p["end"])) for the phases that have both keys
PhaseBounds(phases) ==
  LET withBounds == SelectSeq(phases, LAMBDA p : {"start", "end"} \subseteq DOMAIN p)
  IN [i \in DOMAIN withBounds |-> <<F(withBounds[i].start, 1), F(withBounds[i].end, 1)>>]

\* the phase containing mid_t (a <= mid_t <= b) if any, else the first
RECURSIVE ChosenBounds(_, _, _)
ChosenBounds(bounds, mid_t, first) ==
  IF bounds = <<>> THEN first
  ELSE IF FLe(Head(bounds)[1], mid_t) /\ FLe(mid_t, Head(bounds)[2]) THEN Head(bounds)
  ELSE ChosenBounds(Tail(bounds), mid_t, first)

\* mid_t of a window directory from per_window_summary.csv (meta.rows)
MidT(meta, wid) ==
  IF meta = None THEN None
  ELSE LET row == SelectSeq(meta.rows, LAMBDA r : r.window_id = wid)
       IN IF Len(row) = 1 /\ "t_mid" \in DOMAIN row[1] THEN row[1].t_mid ELSE None

\* curr_score: primary_metric is "score_total" throughout
CurrScore(rc) == IF "score_total" \in DOMAIN rc THEN rc.score_total ELSE None

build_residual_budget_from_window(payload) ==
  LET rc == OrEmpty(payload.robust_choice)
      sc == OrEmpty(payload.stability_scorecard)
      eqv == IF "score_total" \in DOMAIN rc THEN rc.score_total ELSE Zero
      rd == IF "relative_degradation" \in DOMAIN sc THEN sc.relative_degradation ELSE Zero
      ds == IF "delta_score_prev" \in DOMAIN rc THEN rc.delta_score_prev ELSE Zero
  IN [equilibrium |-> PyMax(eqv, Zero),
      robustness_worstcase |-> PyMax(rd, Zero),
      continuity |-> PyMax(FAbs(ds), Zero),
      coil_mapping |-> Zero,
      diagnostic_subset |-> Zero,
      contract_scale |-> Zero]

\* insertion order of the bucket keys
BucketKeys ==
  <<"equilibrium", "robustness_worstcase", "continuity", "coil_mapping",
    "diagnostic_subset", "contract_scale">>

sanity_check_budget(buckets) ==
  /\ DOMAIN buckets # {}
  /\ \A k \in DOMAIN buckets : ~IsNaN(buckets[k]) /\ ~FLt(buckets[k], Zero)

RECURSIVE SumKeys(_, _)
SumKeys(buckets, k) ==
  IF k = 0 THEN Zero ELSE FAdd(SumKeys(buckets, k - 1), buckets[BucketKeys[k]])

budget_total(buckets) == SumKeys(buckets, Len(BucketKeys))

ResidualBudget(buckets) ==
  [buckets |-> buckets, total |-> budget_total(buckets),
   sanity_ok |-> sanity_check_budget(buckets)]

\* the three closure tests of one window, missing values normalised to 0
ClosureTests(wdir, meta, bounds, prev, cfg) ==
  LET payload == load_window_metrics(wdir)
      mid_t == MidT(meta, wdir.window_id)
      curr == CurrScore(OrEmpty(payload.robust_choice))
      drift == closure_test_continuity_drift(prev, curr)
      spread == closure_test_worstcase_spread(OrEmpty(payload.stability_scorecard))
      spike == IF bounds # <<>> /\ mid_t # None /\ drift # None
               THEN closure_test_regime_boundary_spike(
                      mid_t, ChosenBounds(bounds, mid_t, bounds[1]), drift)
               ELSE None
      Result(name, val) ==
        LET v == IF val = None THEN Zero ELSE val
        IN [name |-> name, value |-> v,
            tier |-> PhysicsTier(v, cfg.physics_green, cfg.physics_yellow),
            window_id |-> wdir.window_id, raw |-> val]
  IN << Result("continuity_drift", drift), Result("worstcase_spread", spread),
        Result("phase_boundary_spike", spike) >>

\* bucket_means over the residual_budget.json files read back
RECURSIVE BucketSum(_, _, _)
BucketSum(rows, k, n) ==
  IF n = 0 THEN Zero ELSE FAdd(BucketSum(rows, k, n - 1), rows[n].budget.buckets[k])

BucketMeans(rows) ==
  [k \in {BucketKeys[i] : i \in DOMAIN BucketKeys} |->
     FDiv(BucketSum(rows, k, Len(rows)), F(Len(rows), 1))]

(***************************************************************************)
(* SpecAudit: run_physics_audit on a run directory whose robustness_v4     *)
(* holds up to MaxAuditWindows window directories.  phase_timeline.json    *)
(* and per_window_summary.csv are either as robustness_run writes them     *)
(* (phases keyed phase / t_start / t_end; summary columns without t_mid)   *)
(* or in the layout the audit reads (phases keyed name / start / end; a    *)
(* t_mid column), or absent.  A window directory may lack either of its    *)
(* two artifacts.                                                          *)
(***************************************************************************)
MaxAuditWindows == 2

\* <<dt, ex>> of the window directories, in directory-name order
AuditWindowGrid == << <<0, 0>>, <<4, 0>>, <<-4, 0>>, <<-2, 0>> >>

AuditWindowDef(k) ==
  WindowDef(<<Fmt4(AuditWindowGrid[k][1]), Fmt4(AuditWindowGrid[k][2])>>,
            PhaseBaseline.t_start + AuditWindowGrid[k][1] - AuditWindowGrid[k][2],
            PhaseBaseline.t_end + AuditWindowGrid[k][1] + AuditWindowGrid[k][2],
            "baseline-shift-expand")

\* the window directories a robustness run leaves, some artifacts missing
AuditWindowDirs ==
  LET RobustChoices ==
        { None,
          [ok |-> TRUE, policy |-> "maximin", scenario_id |-> "a", score_total |-> One],
          [ok |-> TRUE, policy |-> "maximin", scenario_id |-> "a", score_total |-> F(2, 1)],
          [ok |-> TRUE, policy |-> "maximin", scenario_id |-> "a", score_total |-> Inf],
          [score_total |-> F(1, 2), delta_score_prev |-> F(-1, 2)] }
      Stabilities ==
        { None,
          [ok |-> TRUE, relative_degradation |-> Zero, tier |-> "GREEN"],
          [ok |-> TRUE, relative_degradation |-> F(1, 10), tier |-> "YELLOW"],
          [ok |-> TRUE, relative_degradation |-> Inf, tier |-> "RED"],
          [ok |-> FALSE, error |-> "invalid baseline"] }
  IN UNION { { [k \in 1..n |->
                  [window_id |-> AuditWindowDef(k).window_id,
                   robust_choice |-> rc[k], stability_scorecard |-> sc[k]]] :
                 rc \in [1..n -> RobustChoices], sc \in [1..n -> Stabilities] } :
             n \in 0..MaxAuditWindows }

\* phase_timeline.json as robustness_run writes it
RunTimeline == segment_phases_from_window(PhaseBaseline, DefaultPre, DefaultPost)

\* per_window_summary.csv as robustness_run writes it: no t_mid column
RunSummary(wdirs) ==
  [k \in DOMAIN wdirs |->
     SummaryRow(AuditWindowDef(k), "a",
                IF wdirs[k].robust_choice # None THEN wdirs[k].robust_choice.score_total
                ELSE Inf)]

InitAudit ==
  LET BoundsTimeline ==
        [i \in DOMAIN RunTimeline |->
           [name |-> RunTimeline[i].phase, start |-> RunTimeline[i].t_start,
            end |-> RunTimeline[i].t_end]]
      MidSummary(wdirs) ==
        [k \in DOMAIN wdirs |->
           [window_id |-> wdirs[k].window_id, t_mid |-> MidOf(AuditWindowDef(k))]]
  IN /\ pc = "audit_start"
     /\ audit_windows \in AuditWindowDirs
     /\ audit_phases \in {None, [phases |-> RunTimeline], [phases |-> BoundsTimeline]}
     /\ audit_meta \in {None, [rows |-> RunSummary(audit_windows)],
                        [rows |-> MidSummary(audit_windows)]}
     /\ audit_config = [physics_green |-> F(5, 100), physics_yellow |-> F(15, 100),
                        primary_metric |-> "score_total"]
     /\ n_audited = 0
     /\ prev_score = None
     /\ max_violation = Zero
     /\ per_test_all = <<>>
     /\ per_window_rows = <<>>
     /\ scorecard = None
     /\ IdleExceptAudit

\* the checks before the window loop: a missing phase_timeline.json raises
StartAudit ==
  /\ pc = "audit_start"
  /\ IF audit_phases = None
     THEN /\ pc' = "raised"
          /\ scorecard' = [raised |-> "FileNotFoundError: Missing phase timeline"]
     ELSE /\ pc' = "audit_loop"
          /\ UNCHANGED scorecard
  /\ UNCHANGED <<audit_phases, audit_meta, audit_windows, audit_config, n_audited,
                 prev_score, max_violation, per_test_all, per_window_rows>>
  /\ UNCHANGED exceptAudit

\* one iteration of the window loop
AuditWindow ==
  /\ pc = "audit_loop"
  /\ n_audited < Len(audit_windows)
  /\ LET wdir == audit_windows[n_audited + 1]
         payload == load_window_metrics(wdir)
         curr == CurrScore(OrEmpty(payload.robust_choice))
         tests == ClosureTests(wdir, audit_meta, PhaseBounds(audit_phases.phases),
                               prev_score, audit_config)
     IN /\ max_violation' =
             PyMax(PyMax(PyMax(max_violation, tests[1].value), tests[2].value),
                   tests[3].value)
        /\ per_test_all' = per_test_all \o tests
        /\ per_window_rows' = Append(per_window_rows,
             [window_id |-> wdir.window_id,
              t_mid |-> MidT(audit_meta, wdir.window_id),
              score |-> curr,
              max_test_violation |->
                PyMax(PyMax(tests[1].value, tests[2].value), tests[3].value),
              tests |-> tests,
              budget |-> ResidualBudget(build_residual_budget_from_window(payload))])
        /\ prev_score' = curr
  /\ n_audited' = n_audited + 1
  /\ UNCHANGED <<pc, audit_phases, audit_meta, audit_windows, audit_config, scorecard>>
  /\ UNCHANGED exceptAudit

\* global tier, global ledger and the scorecard
FinishAudit ==
  /\ pc = "audit_loop"
  /\ n_audited = Len(audit_windows)
  /\ scorecard' =
       [tier |-> PhysicsTier(max_violation, audit_config.physics_green,
                             audit_config.physics_yellow),
        max_violation |-> max_violation,
        primary_metric |-> audit_config.primary_metric,
        per_test |-> per_test_all,
        residual_budget |->
          IF per_window_rows = <<>>
          THEN [buckets |-> <<>>, total |-> Zero, sanity_ok |-> FALSE]
          ELSE ResidualBudget(BucketMeans(per_window_rows))]
  /\ pc' = "done"
  /\ UNCHANGED <<audit_phases, audit_meta, audit_windows, audit_config, n_audited,
                 prev_score, max_violation, per_test_all, per_window_rows>>
  /\ UNCHANGED exceptAudit

NextAudit == StartAudit \/ AuditWindow \/ FinishAudit

SpecAudit == InitAudit /\ [][NextAudit]_vars

TierRank(tier) ==
  CASE tier = "PHYSICS-GREEN" -> 0
    [] tier = "PHYSICS-YELLOW" -> 1
    [] tier = "PHYSICS-RED" -> 2

\* C14: the global tier of run_physics_audit is the most severe tier among
\* all per-window closure test results (the classification of the maximum
\* test value), so it is PHYSICS-GREEN only if every test result is
\* PHYSICS-GREEN.
C14_GlobalTierWorst ==
  (pc = "done" /\ scorecard.per_test # <<>>) =>
    /\ \A i \in DOMAIN scorecard.per_test :
         TierRank(scorecard.per_test[i].tier) <= TierRank(scorecard.tier)
    /\ \E i \in DOMAIN scorecard.per_test :
         scorecard.per_test[i].tier = scorecard.tier
    /\ (scorecard.tier = "PHYSICS-GREEN" =>
          \A i \in DOMAIN scorecard.per_test :
            scorecard.per_test[i].tier = "PHYSICS-GREEN")

\* a window scored after a window whose robust choice scored +inf: its
\* continuity drift is NaN and tiered PHYSICS-RED, the global tier is GREEN
C14_Witness ==
  /\ pc = "done"
  /\ scorecard.tier = "PHYSICS-GREEN"
  /\ \E i \in DOMAIN scorecard.per_test :
       /\ scorecard.per_test[i].name = "continuity_drift"
       /\ IsNaN(scorecard.per_test[i].value)
       /\ scorecard.per_test[i].tier = "PHYSICS-RED"

BudgetSane(budget) ==
  /\ budget.sanity_ok =>
       \A k \in DOMAIN budget.buckets :
         IsFinite(budget.buckets[k]) /\ FLe(Zero, budget.buckets[k])
  /\ budget.total = (IF DOMAIN budget.buckets = {} THEN Zero
                     ELSE SumKeys(budget.buckets, Len(BucketKeys)))

\* C15: for every per-window residual budget and for the global ledger,
\* sanity_ok is True only if every bucket value is finite and >= 0, and
\* total is the sum of the bucket values.
C15_BudgetSanity ==
  /\ \A k \in DOMAIN per_window_rows : BudgetSane(per_window_rows[k].budget)
  /\ pc = "done" => BudgetSane(scorecard.residual_budget)

\* a robust choice with score_total +inf: the equilibrium bucket and the
\* total are +inf and sanity_ok is True, per window and in the global ledger
C15_Witness ==
  /\ pc = "done"
  /\ \E k \in DOMAIN per_window_rows :
       /\ audit_windows[k].robust_choice # None
       /\ audit_windows[k].robust_choice.score_total = Inf
       /\ per_window_rows[k].budget.buckets.equilibrium = Inf
       /\ per_window_rows[k].budget.sanity_ok
  /\ scorecard.residual_budget.buckets.equilibrium = Inf
  /\ scorecard.residual_budget.sanity_ok

MissingOutputs ==
  {k \in DOMAIN audit_windows :
     audit_windows[k].robust_choice = None \/ audit_windows[k].stability_scorecard = None}

\* C16: run_physics_audit aborts with an error, without issuing a physics
\* tier or scorecard, when a window's robust_choice.json or
\* stability_scorecard.json is absent.
C16_MissingOutputAborts ==
  MissingOutputs # {} =>
    /\ pc # "done"
    /\ scorecard = None \/ "raised" \in DOMAIN scorecard
    /\ \A k \in DOMAIN per_window_rows : k \notin MissingOutputs

\* a window directory without robust_choice.json was audited (its tests
\* tiered on the value 0) and the scorecard was issued
C16_Witness ==
  /\ pc = "done"
  /\ \E k \in MissingOutputs :
       /\ audit_windows[k].robust_choice = None
       /\ per_window_rows[k].score = None
       /\ per_window_rows[k].tests[1].tier = "PHYSICS-GREEN"
  /\ scorecard.tier \in {"PHYSICS-GREEN", "PHYSICS-YELLOW", "PHYSICS-RED"}

\* windows whose own and whose predecessor's robust choice carry a score
ScoredAfterScored ==
  {k \in 2..Len(audit_windows) :
     /\ audit_windows[k].robust_choice # None
     /\ audit_windows[k - 1].robust_choice # None}

\* the spike the phase timeline and the window times call for
ExpectedSpike(k) ==
  LET mid == MidOf(AuditWindowDef(k))
      inPhase == {j \in DOMAIN RunTimeline :
                    /\ FLe(F(RunTimeline[j].t_start, 1), mid)
                    /\ FLe(mid, F(RunTimeline[j].t_end, 1))}
      j == IF inPhase = {} THEN 1 ELSE CHOOSE x \in inPhase : \A y \in inPhase : x <= y
      a == F(RunTimeline[j].t_start, 1)
      b == F(RunTimeline[j].t_end, 1)
      prev == audit_windows[k - 1].robust_choice.score_total
      curr == audit_windows[k].robust_choice.score_total
      drift == FDiv(FAbs(FSub(curr, prev)), FAbs(prev))
      d == FDiv(PyMin(FAbs(FSub(mid, a)), FAbs(FSub(mid, b))), FSub(b, a))
  IN PyMin(FDiv(drift, FAdd(d, F(5, 100))), F(10, 1))

\* C17: on the phase_timeline.json and per_window_summary.csv that
\* robustness_run writes, every window with a scored predecessor gets a
\* phase_boundary_spike value of drift / (normalised distance of its
\* midpoint to the nearest boundary of its phase + 0.05), capped at 10.
C17_BoundarySpike ==
  (/\ audit_phases = [phases |-> RunTimeline]
   /\ audit_meta = [rows |-> RunSummary(audit_windows)]) =>
    \A k \in DOMAIN per_window_rows :
      k \in ScoredAfterScored =>
        /\ per_window_rows[k].tests[3].name = "phase_boundary_spike"
        /\ per_window_rows[k].tests[3].value = ExpectedSpike(k)

\* scores 1 then 2 on robustness_run's own artifacts: drift 1, midpoint 0.59
\* in flat_top, a spike of 1 / 0.15 is called for and 0 is recorded
C17_Witness ==
  /\ pc = "done"
  /\ audit_phases = [phases |-> RunTimeline]
  /\ audit_meta = [rows |-> RunSummary(audit_windows)]
  /\ 2 \in ScoredAfterScored
  /\ per_window_rows[2].tests[1].value = One
  /\ ExpectedSpike(2) = F(100, 15)
  /\ per_window_rows[2].tests[3].value = Zero
  /\ per_window_rows[2].tests[3].raw = None

(***************************************************************************)
(* model_form: splits.py, forward.py, mfe.py                               *)
(*                                                                         *)
(* A diagnostic id or a directory name is the sequence of its characters,  *)
(* each a number: 0..9 for the digits, 10..35 for a..z, so that sequence   *)
(* order is string order and "h in s" is a test on sub-sequences.          *)
(***************************************************************************)
\* h in s
IsSubstring(h, s) == \E i \in 1..(Len(s) - Len(h) + 1) : SubSeq(s, i, i + Len(h) - 1) = h

\* "none"
NoneWord == <<23, 24, 23, 14>>

\* ids from scenario_library.json: parameters.diagnostics of each scenario
LibraryIds(lib) ==
  IF lib = None THEN <<>>
  ELSE ConcatAll([i \in DOMAIN lib.scenarios |-> lib.scenarios[i].parameters.diagnostics])

\* str(k) of the keys of the contracts schema
KeyChars(k) ==
  CASE k = "version" -> <<31, 14, 27, 28, 18, 24, 23>>
    [] k = "diagnostics" -> <<13, 18, 10, 16, 23, 24, 28, 29, 18, 12, 28>>

\* ids from one fallback file: the ids of obj["contracts"], else the keys
FileIds(obj) ==
  IF "contracts" \in DOMAIN obj
  THEN {obj.contracts[i].id : i \in DOMAIN obj.contracts}
  ELSE {KeyChars(k) : k \in DOMAIN obj}

\* _diag_ids_from_run
diag_ids_from_run(lib, snapshot, diag_file) ==
  LET fromLib == {LibraryIds(lib)[i] : i \in DOMAIN LibraryIds(lib)}
      afterSnapshot == IF snapshot # None /\ fromLib = {} THEN FileIds(snapshot) ELSE fromLib
      afterFile == IF diag_file # None /\ afterSnapshot = {} THEN FileIds(diag_file)
                   ELSE afterSnapshot
  IN SortedIds({i \in afterFile : i # <<>> /\ i # NoneWord})

CVSplit(split_id, kind, holdout) == [split_id |-> split_id, kind |-> kind, holdout |-> holdout]

generate_cv_splits(lib, snapshot, diag_file, max_splits) ==
  LET diags == diag_ids_from_run(lib, snapshot, diag_file)
      kept == SubSeq(diags, 1, IF Len(diags) < max_splits THEN Len(diags) ELSE max_splits)
  IN IF kept = <<>>
     THEN << CVSplit(<<"noop_none_available">>, "noop", <<>>) >>
     ELSE [i \in DOMAIN kept |-> CVSplit(<<"loo_", kept[i]>>, "loo", <<kept[i]>>)]

\* _rel_deg; abs(b) > 1e-12 is "b # 0" for every value carried here
rel_deg(b, h) ==
  IF b = None \/ h = None THEN None
  ELSE FDiv(FSub(h, b), IF FLt(Zero, FAbs(b)) THEN FAbs(b) ELSE One)

\* _window_baseline: _safe_float turns NaN into None
window_baseline(wdir) ==
  IF wdir.robust_choice = None THEN None
  ELSE IF IsNaN(wdir.robust_choice.score_total) THEN None
  ELSE wdir.robust_choice.score_total

\* the first scenario directory, in name order, whose name contains a held-out id
MatchedScenario(names, holdout) ==
  LET hits == {i \in DOMAIN names :
                 \E k \in DOMAIN holdout : IsSubstring(holdout[k], names[i])}
  IN IF hits = {} THEN None ELSE names[CHOOSE i \in hits : \A j \in hits : i <= j]

\* _scenario_metric: obj.get(primary_metric, obj.get("score_total"),
\* obj.get("chi2_total")) passes three arguments to dict.get, which raises
\* TypeError whenever metrics.json exists
scenario_metric(wdir, scen) ==
  LET sdir == CHOOSE s \in wdir.scenarios : s.name = scen
  IN IF sdir.has_metrics THEN [raised |-> "TypeError: get expected at most 2 arguments, got 3"]
     ELSE None

\* the rows of one window; scenarios are listed in name order
WindowRows(wdir, splits) ==
  LET names == SortedIds({s.name : s \in wdir.scenarios})
  IN [i \in DOMAIN splits |->
        LET scen == MatchedScenario(names, splits[i].holdout)
            held == IF scen = None THEN None ELSE scenario_metric(wdir, scen)
        IN [split_id |-> splits[i].split_id, window_id |-> wdir.window_id,
            scenario_id |-> scen, baseline_value |-> window_baseline(wdir),
            heldout_value |-> held,
            relative_degradation |->
              IF held # None /\ "raised" \in DOMAIN held THEN held
              ELSE rel_deg(window_baseline(wdir), held)]]

\* run_forward_checks: the data frame of all rows, or the first exception
run_forward_checks(wdirs, splits) ==
  LET rows == ConcatAll([k \in DOMAIN wdirs |-> WindowRows(wdirs[k], splits)])
      failed == {i \in DOMAIN rows :
                   rows[i].heldout_value # None /\ "raised" \in DOMAIN rows[i].heldout_value}
  IN IF failed = {} THEN [rows |-> rows]
     ELSE rows[CHOOSE i \in failed : \A j \in failed : i <= j].heldout_value

\* _tier
MfeTier(val, green_, yellow_) ==
  IF FLe(val, green_) THEN "MFE-GREEN"
  ELSE IF FLe(val, yellow_) THEN "MFE-YELLOW"
  ELSE "MFE-RED"

\* to_numeric(...).dropna(): None and NaN go, +inf and -inf stay; then max
RECURSIVE SeriesMax(_)
SeriesMax(values) ==
  IF Len(values) = 1 THEN values[1]
  ELSE LET m == SeriesMax(Tail(values)) IN IF FLe(m, values[1]) THEN values[1] ELSE m

WorstRelativeDegradation(rows) ==
  LET kept == SelectSeq(rows, LAMBDA r : r.relative_degradation # None
                                          /\ ~IsNaN(r.relative_degradation))
  IN IF kept = <<>> THEN Zero
     ELSE SeriesMax([i \in DOMAIN kept |-> kept[i].relative_degradation])

(***************************************************************************)
(* SpecMfe: run_model_form_audit on a run directory on which               *)
(* robustness_run has completed.  robustness_run itself leaves neither a   *)
(* robustness_v4/scenario_library.json nor a diagnostic_contracts*.json in *)
(* the run directory; each may be there from elsewhere, the fallback file  *)
(* either as a list of ids or as a copy of the contracts schema.           *)
(***************************************************************************)
MaxMfeWindows == 2

\* contract names: "c1", "c2"
MfeNames == << <<12, 1>>, <<12, 2>> >>

\* window directories: a robust choice or none, and scenario directories
\* "0c19" (its name contains "c1") and "77ab", with or without metrics.json
MfeWindowDirs ==
  LET Choices == {None, [score_total |-> One], [score_total |-> Inf]}
      Dir(name, has) == [name |-> name, has_metrics |-> has, score_total |-> F(3, 1)]
      ScenarioSets ==
        { {}, {Dir(<<7, 7, 10, 11>>, TRUE)},
          {Dir(<<0, 12, 1, 9>>, FALSE), Dir(<<7, 7, 10, 11>>, TRUE)},
          {Dir(<<0, 12, 1, 9>>, TRUE), Dir(<<7, 7, 10, 11>>, TRUE)} }
  IN UNION { { [k \in 1..n |->
                  [window_id |-> AuditWindowDef(k).window_id,
                   robust_choice |-> rc[k], scenarios |-> sc[k]]] :
                 rc \in [1..n -> Choices], sc \in [1..n -> ScenarioSets] } :
             n \in 1..MaxMfeWindows }

InitMfe ==
  LET IdList(names) == [contracts |-> [i \in DOMAIN names |-> [id |-> names[i]]]]
      Schema(names) == [version |-> "1.0", diagnostics |-> names]
      Library(names) == [scenarios |-> << [parameters |-> [diagnostics |-> names]] >>]
  IN /\ pc = "mfe_splits"
     /\ mfe_contracts \in {SubSeq(MfeNames, 1, n) : n \in 1..Len(MfeNames)}
     /\ mfe_library \in {None, Library(mfe_contracts)}
     /\ mfe_snapshot \in {None, IdList(mfe_contracts)}
     /\ mfe_diag_file \in {None, IdList(mfe_contracts), Schema(mfe_contracts)}
     /\ mfe_windows \in MfeWindowDirs
     /\ mfe_config \in [mfe_green : {F(5, 100)}, mfe_yellow : {F(15, 100)},
                        max_splits : {1, 64}]
     /\ cv_splits = None
     /\ forward_checks = None
     /\ mfe_scorecard = None
     /\ IdleExceptMfe

\* splits = generate_cv_splits(...); cv_splits.json
GenerateSplits ==
  /\ pc = "mfe_splits"
  /\ cv_splits' = [splits |-> generate_cv_splits(mfe_library, mfe_snapshot, mfe_diag_file,
                                                 mfe_config.max_splits)]
  /\ pc' = "mfe_forward"
  /\ UNCHANGED <<mfe_contracts, mfe_library, mfe_snapshot, mfe_diag_file, mfe_windows,
                 mfe_config, forward_checks, mfe_scorecard>>
  /\ UNCHANGED exceptMfe

\* df = run_forward_checks(...); forward_checks.csv
ForwardChecks ==
  /\ pc = "mfe_forward"
  /\ LET checked == run_forward_checks(mfe_windows, cv_splits.splits)
     IN IF "raised" \in DOMAIN checked
        THEN /\ forward_checks' = checked
             /\ pc' = "raised"
        ELSE /\ forward_checks' = checked
             /\ pc' = "mfe_tier"
  /\ UNCHANGED <<mfe_contracts, mfe_library, mfe_snapshot, mfe_diag_file, mfe_windows,
                 mfe_config, cv_splits, mfe_scorecard>>
  /\ UNCHANGED exceptMfe

\* worst, tier and the scorecard
ScoreModelForm ==
  /\ pc = "mfe_tier"
  /\ mfe_scorecard' =
       [tier |-> MfeTier(WorstRelativeDegradation(forward_checks.rows),
                         mfe_config.mfe_green, mfe_config.mfe_yellow),
        worst_relative_degradation |-> WorstRelativeDegradation(forward_checks.rows),
        n_rows |-> Len(forward_checks.rows),
        n_splits |-> Len(cv_splits.splits)]
  /\ pc' = "done"
  /\ UNCHANGED <<mfe_contracts, mfe_library, mfe_snapshot, mfe_diag_file, mfe_windows,
                 mfe_config, cv_splits, forward_checks>>
  /\ UNCHANGED exceptMfe

NextMfe == GenerateSplits \/ ForwardChecks \/ ScoreModelForm

SpecMfe == InitMfe /\ [][NextMfe]_vars

\* the relative degradations the forward check is to yield: per window and
\* split, the matched scenario's score_total against the window's baseline
ExpectedDegradations ==
  LET Value(wdir, sp) ==
        LET scen == MatchedScenario(SortedIds({s.name : s \in wdir.scenarios}), sp.holdout)
        IN IF scen = None \/ wdir.robust_choice = None THEN None
           ELSE LET sdir == CHOOSE s \in wdir.scenarios : s.name = scen
                IN IF sdir.has_metrics
                   THEN FDiv(FSub(sdir.score_total, wdir.robust_choice.score_total),
                             FAbs(wdir.robust_choice.score_total))
                   ELSE None
  IN ConcatAll([k \in DOMAIN mfe_windows |->
                  [i \in DOMAIN cv_splits.splits |-> Value(mfe_windows[k], cv_splits.splits[i])]])

FiniteDegradations ==
  {i \in DOMAIN ExpectedDegradations :
     ExpectedDegradations[i] # None /\ IsFinite(ExpectedDegradations[i])}

\* C18: worst_relative_degradation is the maximum relative_degradation over
\* the forward-check rows whose value is finite (missing and infinite values
\* are ignored), and the MFE tier is its classification: MFE-GREEN if
\* <= mfe_green, MFE-YELLOW if <= mfe_yellow, else MFE-RED.
C18_WorstFinite ==
  /\ (pc \in {"raised", "done"} /\ FiniteDegradations # {}) =>
       /\ pc = "done"
       /\ \E i \in FiniteDegradations :
            mfe_scorecard.worst_relative_degradation = ExpectedDegradations[i]
       /\ \A i \in FiniteDegradations :
            FLe(ExpectedDegradations[i], mfe_scorecard.worst_relative_degradation)
  /\ pc = "done" =>
       mfe_scorecard.tier =
         (IF FLe(mfe_scorecard.worst_relative_degradation, mfe_config.mfe_green)
          THEN "MFE-GREEN"
          ELSE IF FLe(mfe_scorecard.worst_relative_degradation, mfe_config.mfe_yellow)
          THEN "MFE-YELLOW" ELSE "MFE-RED")

\* baseline 1.0 and a held-out scenario "0c19" of contract "c1" with a
\* metrics.json (score 3.0, degradation 2.0): the forward check raises
\* TypeError and no scorecard is written
C18_Witness ==
  /\ pc = "raised"
  /\ "raised" \in DOMAIN forward_checks
  /\ mfe_scorecard = None
  /\ \E i \in FiniteDegradations : ExpectedDegradations[i] = F(2, 1)

\* the leave-one-out splits of the run's contracts
ExpectedSplits ==
  LET names == SortedIds({mfe_contracts[i] : i \in DOMAIN mfe_contracts})
      n == IF Len(names) < mfe_config.max_splits THEN Len(names) ELSE mfe_config.max_splits
  IN [i \in 1..n |-> [split_id |-> <<"loo_", names[i]>>, kind |-> "loo",
                      holdout |-> <<names[i]>>]]

\* C19: for a run directory on which robustness_run completed with N >= 1
\* contracts, generate_cv_splits returns min(N, max_splits) leave-one-out
\* splits in sorted name order, each holding out exactly one contract name,
\* and never a split for an identifier that is not one of the diagnostics.
C19_LooSplits ==
  (pc # "mfe_splits" /\ Len(mfe_contracts) >= 1) =>
    /\ cv_splits.splits = ExpectedSplits
    /\ \A i \in DOMAIN cv_splits.splits :
         /\ Len(cv_splits.splits[i].holdout) = 1
         /\ \E k \in DOMAIN mfe_contracts :
              cv_splits.splits[i].holdout[1] = mfe_contracts[k]

\* the directory as robustness_run leaves it (no scenario_library.json in
\* robustness_v4, no diagnostic_contracts*.json), two contracts: one noop split
C19_Witness ==
  /\ pc # "mfe_splits"
  /\ Len(mfe_contracts) = 2
  /\ mfe_library = None
  /\ mfe_snapshot = None
  /\ mfe_diag_file = None
  /\ Len(cv_splits.splits) = 1
  /\ cv_splits.splits[1].kind = "noop"
  /\ cv_splits.splits[1].holdout = <<>>

(***************************************************************************)
(* robustness/attribution.py                                               *)
(*                                                                         *)
(* sorted(xs, key=k, reverse=True) on keys that are totally ordered and    *)
(* pairwise different is the descending order of the keys.                 *)
(***************************************************************************)
\* (rel, family) < (rel, family) as Python compares tuples
FamilyKeyLess(r1, f1, r2, f2) == FLt(r1, r2) \/ (FEq(r1, r2) /\ StrLess(f1, f2))

\* (score, scenario_id, window_id) < (score, scenario_id, window_id)
DamageLess(x, y) ==
  \/ FLt(x[1], y[1])
  \/ FEq(x[1], y[1]) /\ IdLess(x[2], y[2])
  \/ FEq(x[1], y[1]) /\ x[2] = y[2] /\ WindowIdLess(x[3], y[3])

\* the elements of a set as a sequence, greatest first under Less
Descending(S, Less(_, _)) ==
  [i \in 1..Cardinality(S) |->
     CHOOSE x \in S : Cardinality({y \in S : Less(x, y)}) = i - 1]

FirstK(s, k) == SubSeq(s, 1, IF Len(s) < k THEN Len(s) ELSE k)

\* families ranked by ascending name at equal relative degradation
FamilyKeyLessNameAscending(r1, f1, r2, f2) ==
  FLt(r1, r2) \/ (FEq(r1, r2) /\ StrLess(f2, f1))

\* one window of sensitivity_attribution: skipped (no file, empty table,
\* baseline <= 0), or its worst scenarios and per-family rows
AttributeOne(wdir, k) ==
  IF wdir.agg = None THEN [skipped |-> TRUE]
  ELSE IF wdir.agg.rows = <<>> THEN [skipped |-> TRUE]
  ELSE
    LET t == wdir.agg.rows
        baseline == ColumnMin(t)
        fams == {t[i].family : i \in DOMAIN t}
        worst(fam) == ColumnMax(SelectSeq(t, LAMBDA r : r.family = fam))
        rel(fam) == FDiv(FSub(worst(fam), baseline), baseline)
        dom == CHOOSE f \in fams :
                 \A g \in fams \ {f} : FamilyKeyLess(rel(g), g, rel(f), f)
        \* score_total descending, scenario_id ascending
        dfw == Descending({<<t[i].score_total, t[i].scenario_id>> : i \in DOMAIN t},
                          LAMBDA x, y : FLt(x[1], y[1]) \/ (FEq(x[1], y[1]) /\ IdLess(y[2], x[2])))
        names == Descending(fams, LAMBDA f, g : StrLess(g, f))
    IN IF FLe(baseline, Zero) THEN [skipped |-> TRUE]
       ELSE [skipped |-> FALSE,
             worst |-> [i \in DOMAIN FirstK(dfw, k) |->
                          <<dfw[i][1], dfw[i][2], wdir.window_id>>],
             rows |-> [i \in DOMAIN names |->
                         [window_id |-> wdir.window_id, family |-> names[i],
                          baseline_score_total |-> baseline,
                          worst_family_score_total |-> worst(names[i]),
                          relative_degradation |-> rel(names[i]),
                          is_dominant_in_window |-> names[i] = dom]]]

RECURSIVE SumOf(_)
SumOf(values) == IF values = <<>> THEN Zero ELSE FAdd(Head(values), SumOf(Tail(values)))

\* one entry of fam_summary
FamilySummary(rows, fam) ==
  LET sub == SelectSeq(rows, LAMBDA r : r.family = fam)
      rels == [i \in DOMAIN sub |-> sub[i].relative_degradation]
  IN [family |-> fam,
      n_windows |-> Cardinality({sub[i].window_id : i \in DOMAIN sub}),
      worst_relative_degradation |-> SeriesMax(rels),
      mean_relative_degradation |-> FDiv(SumOf(rels), F(Len(rels), 1)),
      dominant_count |-> Cardinality({i \in DOMAIN sub : sub[i].is_dominant_in_window})]

\* the ledger built from the collected rows
AttributionLedger(rows, worst, k) ==
  IF rows = <<>> THEN [ok |-> FALSE, error |-> "no aggregated metrics found"]
  ELSE
    LET summaries == {FamilySummary(rows, rows[i].family) : i \in DOMAIN rows}
        ranked == Descending(summaries,
                    LAMBDA a, b : FamilyKeyLess(a.worst_relative_degradation, a.family,
                                                b.worst_relative_degradation, b.family))
        damage == FirstK(Descending({worst[i] : i \in DOMAIN worst}, DamageLess), k)
    IN [ok |-> TRUE, method |-> "family_worstcase_relative_degradation",
        per_family_summary |-> ranked,
        top_damage_scenarios |->
          [i \in DOMAIN damage |->
             [window_id |-> damage[i][3], scenario_id |-> damage[i][2],
              score_total |-> damage[i][1],
              descriptor |-> <<damage[i][3], damage[i][2]>>]]]

(***************************************************************************)
(* SpecAttribution: sensitivity_attribution over the window directories of *)
(* a robustness run, one loop iteration per directory, then the ledger.    *)
(* The aggregated tables are inputs: per window, at most one scenario of   *)
(* each family, with any score.                                            *)
(***************************************************************************)
MaxAttrWindows == 2

AttrFamilies == {"contract_perturbation", "diagnostic_subset", "window"}

AttrScenarios(k) ==
  generate_scenarios_for_window(AuditWindowDef(k), <<[name |-> "c1"]>>,
                                TRUE, TRUE, DefaultScaleGrid, FALSE)

\* the scores of a window's scenarios, one scenario of each family at most
AttrScores ==
  { f \in [AttrFamilies -> {None, Zero, One, F(2, 1), Inf}] :
      /\ \A fam \in AttrFamilies \ {"window"} : f[fam] # Zero
      /\ \E fam \in AttrFamilies : f[fam] # None /\ IsFinite(f[fam]) }

\* aggregated_metrics.csv of window k with these scores, rows in scenario_id order
AttrTable(k, sc) ==
  LET scs == AttrScenarios(k)
      pick(fam) == CHOOSE d \in {scs[i] : i \in DOMAIN scs} : d.family = fam
      sid == [fam \in AttrFamilies |-> scenario_id(pick(fam))]
      ordered == SortedIds({sid[fam] : fam \in AttrFamilies})
      famOf(id) == CHOOSE fam \in AttrFamilies : sid[fam] = id
  IN SelectSeq([i \in DOMAIN ordered |->
                  [scenario_id |-> ordered[i], family |-> famOf(ordered[i]),
                   window_id |-> AuditWindowDef(k).window_id,
                   score_total |-> sc[famOf(ordered[i])]]],
               LAMBDA r : r.score_total # None)

InitAttribution ==
  /\ pc = "attr_loop"
  /\ \E n \in 0..MaxAttrWindows :
       \E files \in [1..n -> {None, <<>>} \cup AttrScores] :
         attr_windows =
           [k \in 1..n |->
              [window_id |-> AuditWindowDef(k).window_id,
               agg |-> IF files[k] = None THEN None
                       ELSE IF files[k] = <<>> THEN [rows |-> <<>>]
                       ELSE [rows |-> AttrTable(k, files[k])]]]
  /\ top_k \in {1, 8}
  /\ n_attr = 0
  /\ per_family_rows = <<>>
  /\ worst_scenarios = <<>>
  /\ attribution = None
  /\ IdleExceptAttr

\* for wdir in sorted(windows_dir.iterdir()): one iteration
AttributeWindow ==
  /\ pc = "attr_loop"
  /\ n_attr < Len(attr_windows)
  /\ LET one == AttributeOne(attr_windows[n_attr + 1], top_k)
     IN IF one.skipped
        THEN UNCHANGED <<per_family_rows, worst_scenarios>>
        ELSE /\ per_family_rows' = per_family_rows \o one.rows
             /\ worst_scenarios' = worst_scenarios \o one.worst
  /\ n_attr' = n_attr + 1
  /\ UNCHANGED <<pc, attr_windows, top_k, attribution>>
  /\ UNCHANGED exceptAttr

\* after the loop: the family summary, the top damage list, the JSON written
WriteAttribution ==
  /\ pc = "attr_loop"
  /\ n_attr = Len(attr_windows)
  /\ attribution' = AttributionLedger(per_family_rows, worst_scenarios, top_k)
  /\ pc' = "done"
  /\ UNCHANGED <<attr_windows, top_k, n_attr, per_family_rows, worst_scenarios>>
  /\ UNCHANGED exceptAttr

NextAttribution == AttributeWindow \/ WriteAttribution

SpecAttribution == InitAttribution /\ [][NextAttribution]_vars

\* the rows of per_family_rows that belong to one window
RowsOfWindow(wid) == SelectSeq(per_family_rows, LAMBDA r : r.window_id = wid)

\* the aggregated table sensitivity_attribution read for a window
TableOfWindow(wid) ==
  LET w == CHOOSE x \in {attr_windows[k] : k \in DOMAIN attr_windows} : x.window_id = wid
  IN w.agg.rows

\* (worst family score - window baseline) / window baseline, from the table
ExpectedFamilyDegradation(wid, fam) ==
  LET t == TableOfWindow(wid)
      b == LeastOf(ScoresOf(t))
      w == GreatestOf({t[i].score_total : i \in {j \in DOMAIN t : t[j].family = fam}})
  IN FDiv(FSub(w, b), b)

\* two families of one window with the same relative degradation, the largest
TiedForDominance(wid) ==
  LET rows == RowsOfWindow(wid)
  IN \E i, j \in DOMAIN rows :
       /\ i # j
       /\ FEq(rows[i].relative_degradation, rows[j].relative_degradation)
       /\ \A k \in DOMAIN rows :
            FLe(rows[k].relative_degradation, rows[i].relative_degradation)

\* C20: in sensitivity_attribution every per-family row carries the relative
\* degradation (worst family score - window baseline) / baseline; the dominant
\* family of a window is the one of largest relative degradation and, among
\* families of equal relative degradation, the one whose name is first in
\* ascending lexicographic order; per_family_summary lists the families by
\* worst relative degradation descending and, at equal worst relative
\* degradation, by family name ascending.
C20_FamilyOrder ==
  /\ \A i \in DOMAIN per_family_rows :
       LET r == per_family_rows[i]
           rows == RowsOfWindow(r.window_id)
       IN /\ r.relative_degradation = ExpectedFamilyDegradation(r.window_id, r.family)
          /\ r.is_dominant_in_window <=>
               \A k \in DOMAIN rows :
                 rows[k].family # r.family =>
                   FamilyKeyLessNameAscending(rows[k].relative_degradation, rows[k].family,
                                              r.relative_degradation, r.family)
  /\ (pc = "done" /\ attribution.ok) =>
       LET s == attribution.per_family_summary
       IN \A i, j \in DOMAIN s :
            i < j => FamilyKeyLessNameAscending(s[j].worst_relative_degradation, s[j].family,
                                                s[i].worst_relative_degradation, s[i].family)

\* the ledger is written for a run in which two families of one window tie
\* for the largest relative degradation and two families tie in the ranking
C20_Witness ==
  /\ pc = "done"
  /\ attribution.ok
  /\ \E i \in DOMAIN per_family_rows : TiedForDominance(per_family_rows[i].window_id)
  /\ LET s == attribution.per_family_summary
     IN \E i \in DOMAIN s : i < Len(s) /\ FEq(s[i].worst_relative_degradation,
                                               s[i + 1].worst_relative_degradation)

\* the windows whose table sensitivity_attribution uses
ContributingWindows ==
  {k \in DOMAIN attr_windows :
     /\ attr_windows[k].agg # None
     /\ attr_windows[k].agg.rows # <<>>
     /\ ~FLe(ColumnMin(attr_windows[k].agg.rows), Zero)}

\* (score_total, scenario_id, window_id) of every scenario of those windows
AllDamage ==
  UNION { {<<attr_windows[k].agg.rows[i].score_total,
             attr_windows[k].agg.rows[i].scenario_id,
             attr_windows[k].window_id>> : i \in DOMAIN attr_windows[k].agg.rows} :
          k \in ContributingWindows }

\* x comes after y: lower score, or at equal score the later scenario_id,
\* or at equal scenario_id the later window_id
DamageAfter(x, y) ==
  \/ FLt(x[1], y[1])
  \/ FEq(x[1], y[1]) /\ IdLess(y[2], x[2])
  \/ FEq(x[1], y[1]) /\ x[2] = y[2] /\ WindowIdLess(y[3], x[3])

\* C21: top_damage_scenarios of sensitivity_attribution are the first top_k
\* entries of all scenarios of all contributing windows ordered by score_total
\* descending, ties broken by scenario_id and then window_id ascending.
C21_TopDamage ==
  (pc = "done" /\ attribution # None /\ attribution.ok) =>
    LET expected == FirstK(Descending(AllDamage, DamageAfter), top_k)
        got == attribution.top_damage_scenarios
    IN /\ Len(got) = Len(expected)
       /\ \A i \in DOMAIN got :
            <<got[i].score_total, got[i].scenario_id, got[i].window_id>> = expected[i]

\* the ledger is written with two scenarios of equal score_total among the
\* top damage scenarios
C21_Witness ==
  /\ pc = "done"
  /\ attribution # None
  /\ attribution.ok
  /\ LET got == attribution.top_damage_scenarios
     IN \E i, j \in DOMAIN got : i # j /\ FEq(got[i].score_total, got[j].score_total)

(***************************************************************************)
(* Corpus roll-up on the files of run directories.                         *)
(*                                                                         *)
(* A robustness directory is None when it does not exist, else the function *)
(* from the names of the files at its root to their contents.  The digest  *)
(* of a file is identified by its content.                                 *)
(***************************************************************************)
NoneKey == "None"

HasFile(root, fn) == root # None /\ fn \in DOMAIN root

\* root with the file fn (over)written
WriteFile(root, fn, content) ==
  [f \in (IF root = None THEN {} ELSE DOMAIN root) \cup {fn} |->
     IF f = fn THEN content ELSE root[f]]

\* the first required file that is missing, 0 when none is
FirstMissing(root) ==
  IF \A i \in DOMAIN REQUIRED_ROBUSTNESS_FILES : HasFile(root, REQUIRED_ROBUSTNESS_FILES[i])
  THEN 0
  ELSE CHOOSE i \in DOMAIN REQUIRED_ROBUSTNESS_FILES :
         /\ ~HasFile(root, REQUIRED_ROBUSTNESS_FILES[i])
         /\ \A j \in 1..(i - 1) : HasFile(root, REQUIRED_ROBUSTNESS_FILES[j])

\* from_run_dir without the existence test on the required files
CorpusEntry_from_run_dir_unchecked(p, root) ==
  IF root = None
  THEN [raised |-> "FileNotFoundError: robustness directory not found"]
  ELSE [run_dir |-> p,
        shot |-> infer_shot(p),
        robustness_dir |-> <<p, "robustness_v4">>,
        hashes |-> [i \in DOMAIN REQUIRED_ROBUSTNESS_FILES |->
                      <<REQUIRED_ROBUSTNESS_FILES[i],
                        IF HasFile(root, REQUIRED_ROBUSTNESS_FILES[i])
                        THEN sha256_text(root[REQUIRED_ROBUSTNESS_FILES[i]])
                        ELSE sha256_text(None)>>]]

\* CorpusEntry.from_run_dir on the files of the run directory
CorpusEntry_from_run_dir(p, root) ==
  IF root = None
  THEN [raised |-> "FileNotFoundError: robustness directory not found"]
  ELSE IF FirstMissing(root) # 0
  THEN [raised |-> "FileNotFoundError: required robustness artifact missing",
        path |-> <<p, REQUIRED_ROBUSTNESS_FILES[FirstMissing(root)]>>]
  ELSE [run_dir |-> p,
        shot |-> infer_shot(p),
        robustness_dir |-> <<p, "robustness_v4">>,
        hashes |-> [i \in DOMAIN REQUIRED_ROBUSTNESS_FILES |->
                      <<REQUIRED_ROBUSTNESS_FILES[i],
                        sha256_text(root[REQUIRED_ROBUSTNESS_FILES[i]])>>]]

\* build_corpus: the exception of the first bad entry, or the two files written
build_corpus_files(dirs, roots) ==
  LET entries == [i \in DOMAIN dirs |-> CorpusEntry_from_run_dir(dirs[i], roots[dirs[i]])]
      bad == {i \in DOMAIN dirs : "raised" \in DOMAIN entries[i]}
      es == sorted_entries(entries)
  IN IF bad # {}
     THEN [raised |-> entries[CHOOSE i \in bad : \A j \in bad : i <= j]]
     ELSE [manifest |-> [schema_version |-> "v5.0.0",
                         corpus_id |-> corpus_id(entries),
                         robustness_subdir |-> "robustness_v4",
                         n |-> Len(entries),
                         entries |-> entries],
           shot_index |->
             [rows |-> [i \in DOMAIN es |->
                          [shot |-> es[i].shot, run_dir |-> es[i].run_dir,
                           sha256 |-> SortKeys(es[i].hashes)]]]]

\* one row of per_window_summary as robustness_run appends it
IndexRow(w, pol, sid, score, tier, rd) ==
  [window_id |-> w.window_id, t_start |-> w.t_start, t_end |-> w.t_end,
   policy |-> pol, scenario_id |-> sid, score_total |-> score,
   tier |-> tier, relative_degradation |-> rd]

\* global robust choice: first row by (score_total, window_id)
GlobalChoice(dfw) ==
  IF dfw = <<>> THEN [ok |-> FALSE, error |-> "no window summaries"]
  ELSE [ok |-> TRUE, method |-> "min_score_total_over_window_choices",
        best_window |->
          dfw[CHOOSE i \in DOMAIN dfw :
                \A j \in DOMAIN dfw \ {i} :
                  \/ FLt(dfw[i].score_total, dfw[j].score_total)
                  \/ /\ FEq(dfw[i].score_total, dfw[j].score_total)
                     /\ WindowIdLess(dfw[i].window_id, dfw[j].window_id)]]

\* continuity_metrics: rows in window_id order with the first difference
ContinuityRows(per_window) ==
  LET t == sort_by_window_id(per_window)
  IN [i \in DOMAIN t |->
        [window_id |-> t[i].window_id, score_total |-> t[i].score_total,
         delta_score_prev |-> IF i = 1 THEN NaN
                              ELSE FSub(t[i].score_total, t[i - 1].score_total)]]

\* the files robustness_run leaves at the robustness root when it returns,
\* given the per-window summary and the ledger its window loop produced
RobustnessRootFiles(per_window, ledger) ==
  LET phases == segment_phases_from_window(PhaseBaseline, DefaultPre, DefaultPost)
      dfw == sort_by_window_id(per_window)
      byRun == [written_by |-> "robustness_run"]
  IN [fn \in {"window_library.json", "phase_timeline.json", "per_window_summary.csv",
              "continuity_metrics.csv", "phase_consistency_scorecard.json",
              "phase_consistency_summary.md", "sensitivity_attribution.json",
              "dominant_failure_modes.md", "plots_manifest.json",
              "global_robust_choice.json", "robust_summary.md"} |->
        CASE fn = "phase_timeline.json" -> [phases |-> phases]
          [] fn = "per_window_summary.csv" -> [rows |-> dfw]
          [] fn = "continuity_metrics.csv" -> [rows |-> ContinuityRows(per_window)]
          [] fn = "phase_consistency_scorecard.json" ->
               compute_phase_consistency(dfw, phases,
                                         PhaseThresholds(F(8, 10), F(1, 10), F(4, 10)))
          [] fn = "sensitivity_attribution.json" -> ledger
          [] fn = "plots_manifest.json" -> [ok |-> TRUE, plots |-> byRun]
          [] fn = "global_robust_choice.json" -> GlobalChoice(dfw)
          [] OTHER -> byRun]

\* files written over the files already there
Overwrite(root, files) ==
  [f \in (IF root = None THEN {} ELSE DOMAIN root) \cup DOMAIN files |->
     IF f \in DOMAIN files THEN files[f] ELSE root[f]]

\* series.value_counts(dropna=False).to_dict() of one column
ValueCounts(rows, col) ==
  [v \in {rows[i][col] : i \in DOMAIN rows} |->
     Cardinality({i \in DOMAIN rows : rows[i][col] = v})]

PhysicsScorecardFile == "physics_audit/physics_consistency_scorecard.json"

ModelFormScorecardFile == "model_form/model_form_scorecard.json"

\* float(d.get(k)) when the value is present and not None, else nan
FloatOrNaN(d, k) ==
  IF d # None /\ k \in DOMAIN d /\ d[k] # None THEN d[k] ELSE NaN

\* one row of atlas_metrics.csv; a Python None in a text column is NoneKey
AtlasRow(e, root) ==
  LET stability == root["stability_scorecard.json"]
      phase_cons == root["phase_consistency_scorecard.json"]
      attrib == root["sensitivity_attribution.json"]
      chosen == root["global_robust_choice.json"]
      phys == IF PhysicsScorecardFile \in DOMAIN root THEN root[PhysicsScorecardFile] ELSE None
      mfe == IF ModelFormScorecardFile \in DOMAIN root THEN root[ModelFormScorecardFile] ELSE None
  IN [shot |-> e.shot,
      run_dir |-> e.run_dir,
      tier |-> DictGet(stability, "tier", NoneKey),
      relative_degradation |-> DictGet(stability, "relative_degradation", Zero),
      global_phase_label |-> DictGet(phase_cons, "global_label", NoneKey),
      dominant_family |-> DictGet(attrib, "dominant_family", NoneKey),
      robust_scenario_id |-> DictGet(chosen, "scenario_id", NoneKey),
      robust_score_total |-> FloatOrNaN(chosen, "score_total"),
      physics_tier |-> IF phys # None THEN DictGet(phys, "tier", NoneKey) ELSE NoneKey,
      physics_max_violation |-> FloatOrNaN(phys, "max_violation"),
      mfe_tier |-> IF mfe # None THEN DictGet(mfe, "tier", NoneKey) ELSE NoneKey,
      mfe_worst_relative_degradation |-> FloatOrNaN(mfe, "worst_relative_degradation")]

\* build_atlas on the manifest of a corpus and the files of its entries
build_atlas(man, roots) ==
  LET entries == man.entries
      unreadable ==
        {i \in DOMAIN entries :
           \E fn \in {"stability_scorecard.json", "phase_consistency_scorecard.json",
                      "sensitivity_attribution.json", "global_robust_choice.json"} :
             ~HasFile(roots[entries[i].run_dir], fn)}
      rows == sorted_entries([i \in DOMAIN entries |->
                                AtlasRow(entries[i], roots[entries[i].run_dir])])
  IN IF unreadable # {} THEN [raised |-> "FileNotFoundError"]
     ELSE [atlas_metrics |-> rows,
           atlas_summary |->
             [schema_version |-> "v7.0.0", n |-> Len(rows),
              tier_counts |-> ValueCounts(rows, "tier"),
              phase_label_counts |-> ValueCounts(rows, "global_phase_label"),
              dominant_family_counts |-> ValueCounts(rows, "dominant_family")]]

(***************************************************************************)
(* SpecIndex: run directories, some of them completed by robustness_run,   *)
(* are indexed by build_corpus and flattened by build_atlas.  What is in a *)
(* robustness directory before robustness_run runs (nothing, or files put  *)
(* there by other means) is an input.                                      *)
(***************************************************************************)
MaxIndexRuns == 2

IndexRunDirs == { RunDir("runs", "shot_", <<2>>), RunDir("runs", "misc", <<>>) }

\* per-window summaries a window loop may produce
IndexSummaries ==
  { << IndexRow(PhaseWindow(3), "maximin", "a", One, "GREEN", Zero) >>,
    << IndexRow(PhaseWindow(3), "maximin", "a", F(11, 10), "RED", One),
       IndexRow(PhaseWindow(4), "maximin", "b", One, "GREEN", Zero) >>,
    << IndexRow(PhaseWindow(4), "maximin", "b", One, "YELLOW", F(1, 10)),
       IndexRow(PhaseWindow(3), "maximin", "a", One, "GREEN", Zero) >> }

\* the ledger sensitivity_attribution returns for one window with these scores
LedgerOf(sc) ==
  LET one == AttributeOne([window_id |-> AuditWindowDef(1).window_id,
                           agg |-> [rows |-> AttrTable(1, sc)]], 8)
  IN AttributionLedger(one.rows, one.worst, 8)

IndexLedgers ==
  { [ok |-> FALSE, error |-> "no aggregated metrics found"],
    LedgerOf([fam \in AttrFamilies |->
                IF fam = "window" THEN One
                ELSE IF fam = "diagnostic_subset" THEN F(2, 1) ELSE F(3, 1)]) }

\* robustness directories as they may be found before robustness_run
FoundRoots ==
  LET external ==
        [fn \in {REQUIRED_ROBUSTNESS_FILES[i] : i \in DOMAIN REQUIRED_ROBUSTNESS_FILES}
                \cup {PhysicsScorecardFile, ModelFormScorecardFile} |->
           CASE fn = "stability_scorecard.json" ->
                  [ok |-> TRUE, tier |-> "YELLOW", relative_degradation |-> F(1, 10)]
             [] fn = "global_robust_choice.json" ->
                  [ok |-> TRUE, scenario_id |-> "b", score_total |-> F(2, 1)]
             [] fn = "sensitivity_attribution.json" ->
                  [ok |-> TRUE, dominant_family |-> "window"]
             [] fn = "phase_consistency_scorecard.json" ->
                  [ok |-> TRUE, global_label |-> "PHASE-DRIFTING"]
             [] fn = PhysicsScorecardFile ->
                  [tier |-> "PHYSICS-GREEN", max_violation |-> Zero]
             [] fn = ModelFormScorecardFile ->
                  [tier |-> "MFE-RED", worst_relative_degradation |-> One]
             [] OTHER -> [written_by |-> "other"]]
      without(fn) == [f \in DOMAIN external \ {fn} |-> external[f]]
  IN {None, <<>>, external,
      [f \in {"stability_scorecard.json"} |->
         [ok |-> FALSE, error |-> "invalid baseline"]]}
     \cup {without(REQUIRED_ROBUSTNESS_FILES[i]) : i \in DOMAIN REQUIRED_ROBUSTNESS_FILES}

InitIndex ==
  /\ pc = "runs"
  /\ idx_run_dirs \in UNION { [1..n -> IndexRunDirs] : n \in 1..MaxIndexRuns }
  /\ idx_fs \in [IndexRunDirs -> FoundRoots]
  /\ idx_ran = {}
  /\ idx_out = [manifest |-> None, shot_index |-> None]
  /\ idx_result = None
  /\ atlas_out = None
  /\ IdleExceptIndex

\* robustness_run on a run directory, returning normally
RobustnessRunCompletes ==
  /\ pc = "runs"
  /\ \E p \in IndexRunDirs \ idx_ran, per_window \in IndexSummaries, ledger \in IndexLedgers :
       /\ idx_fs' = [idx_fs EXCEPT ![p] = Overwrite(idx_fs[p],
                                                    RobustnessRootFiles(per_window, ledger))]
       /\ idx_ran' = idx_ran \cup {p}
  /\ UNCHANGED <<pc, idx_run_dirs, idx_out, idx_result, atlas_out>>
  /\ UNCHANGED exceptIndex

\* build_corpus(run_dirs, out_dir)
BuildCorpusFiles ==
  /\ pc = "runs"
  /\ LET built == build_corpus_files(idx_run_dirs, idx_fs)
     IN IF "raised" \in DOMAIN built
        THEN /\ idx_result' = built
             /\ pc' = "raised"
             /\ UNCHANGED idx_out
        ELSE /\ idx_out' = built
             /\ idx_result' = [returned |-> "out_dir"]
             /\ pc' = "corpus"
  /\ UNCHANGED <<idx_run_dirs, idx_fs, idx_ran, atlas_out>>
  /\ UNCHANGED exceptIndex

\* build_atlas(corpus_dir)
BuildAtlas ==
  /\ pc = "corpus"
  /\ atlas_out' = build_atlas(idx_out.manifest, idx_fs)
  /\ pc' = "done"
  /\ UNCHANGED <<idx_run_dirs, idx_fs, idx_ran, idx_out, idx_result>>
  /\ UNCHANGED exceptIndex

NextIndex == RobustnessRunCompletes \/ BuildCorpusFiles \/ BuildAtlas

SpecIndex == InitIndex /\ [][NextIndex]_vars

RequiredFiles == {REQUIRED_ROBUSTNESS_FILES[i] : i \in DOMAIN REQUIRED_ROBUSTNESS_FILES}

\* a listed run directory lacks its robustness directory or a required file
SomeRunIncomplete ==
  \E i \in DOMAIN idx_run_dirs :
    \/ idx_fs[idx_run_dirs[i]] = None
    \/ \E fn \in RequiredFiles : fn \notin DOMAIN idx_fs[idx_run_dirs[i]]

\* C22: build_corpus raises if any listed run directory lacks its robustness
\* directory or one of the required robustness files, and then writes
\* neither corpus_manifest.json nor shot_index.csv; when it returns, every
\* entry of the manifest records the content hash of each required file.
C22_CorpusFailFast ==
  (pc \in {"raised", "corpus", "done"}) =>
    /\ SomeRunIncomplete =>
         /\ pc = "raised"
         /\ "raised" \in DOMAIN idx_result
         /\ idx_out.manifest = None
         /\ idx_out.shot_index = None
    /\ ~SomeRunIncomplete =>
         /\ pc # "raised"
         /\ idx_out.manifest # None
         /\ idx_out.shot_index # None
         /\ Len(idx_out.manifest.entries) = Len(idx_run_dirs)
         /\ \A i \in DOMAIN idx_run_dirs :
              LET e == idx_out.manifest.entries[i]
              IN /\ e.run_dir = idx_run_dirs[i]
                 /\ {e.hashes[k][1] : k \in DOMAIN e.hashes} = RequiredFiles
                 /\ \A k \in DOMAIN e.hashes :
                      e.hashes[k][2] = sha256_text(idx_fs[e.run_dir][e.hashes[k][1]])

\* build_corpus raised on two run directories of which the first is complete
\* and the second has its robustness directory with exactly one file missing
C22_Witness ==
  /\ pc = "raised"
  /\ Len(idx_run_dirs) = 2
  /\ idx_fs[idx_run_dirs[1]] # None
  /\ RequiredFiles \subseteq DOMAIN idx_fs[idx_run_dirs[1]]
  /\ idx_fs[idx_run_dirs[2]] # None
  /\ Cardinality(RequiredFiles \ DOMAIN idx_fs[idx_run_dirs[2]]) = 1
  /\ idx_out.manifest = None

\* robustness_run completed on every listed run directory before build_corpus
AllListedRan == \A i \in DOMAIN idx_run_dirs : idx_run_dirs[i] \in idx_ran

\* C23: build_corpus on run directories on which robustness_run has
\* completed never raises for a missing artifact: robustness_run writes every
\* file of REQUIRED_ROBUSTNESS_FILES at the robustness root.
C23_RunThenCorpus ==
  /\ \A p \in idx_ran : RequiredFiles \subseteq DOMAIN idx_fs[p]
  /\ (pc \in {"raised", "corpus", "done"} /\ AllListedRan) => pc # "raised"

\* build_corpus raised on a directory that robustness_run had completed,
\* for the stability scorecard at the robustness root
C23_Witness ==
  /\ pc = "raised"
  /\ AllListedRan
  /\ "path" \in DOMAIN idx_result.raised
  /\ idx_result.raised.path[2] = "stability_scorecard.json"

\* atlas rows of run directories whose global choice and attribution ledger
\* were written by robustness_run
RowsOfCompletedRuns ==
  IF pc = "done" /\ "atlas_metrics" \in DOMAIN atlas_out
  THEN {i \in DOMAIN atlas_out.atlas_metrics :
          atlas_out.atlas_metrics[i].run_dir \in idx_ran}
  ELSE {}

\* C24: the atlas row of a run whose artifacts robustness_run wrote carries
\* the score_total and scenario_id of the run's global robust choice and, as
\* dominant_family, the top-ranked family of the run's attribution ledger.
C24_AtlasCarriesRun ==
  \A i \in RowsOfCompletedRuns :
    LET row == atlas_out.atlas_metrics[i]
        chosen == idx_fs[row.run_dir]["global_robust_choice.json"]
        ledger == idx_fs[row.run_dir]["sensitivity_attribution.json"]
    IN /\ chosen.ok =>
            /\ row.robust_score_total = chosen.best_window.score_total
            /\ row.robust_scenario_id = chosen.best_window.scenario_id
       /\ ledger.ok => row.dominant_family = ledger.per_family_summary[1].family

\* an atlas is built with the row of a completed run whose ledger ranks families
C24_Witness ==
  \E i \in RowsOfCompletedRuns :
    LET row == atlas_out.atlas_metrics[i]
    IN /\ idx_fs[row.run_dir]["sensitivity_attribution.json"].ok
       /\ idx_fs[row.run_dir]["global_robust_choice.json"].ok

(***************************************************************************)
(* corpus/compare.py                                                       *)
(*                                                                         *)
(* An atlas is [has_shot, rows]: whether atlas_metrics.csv has a shot      *)
(* column, and its rows; an absent shot (NaN in the csv) is NoShot.        *)
(***************************************************************************)
\* a_df.merge(b_df, on=key): pairs of rows with equal key, left order first
RECURSIVE MergeOn(_, _, _)
MergeOn(a_rows, b_rows, key) ==
  IF a_rows = <<>> THEN <<>>
  ELSE LET matches == SelectSeq(b_rows, LAMBDA r : r[key] = Head(a_rows)[key])
       IN [j \in DOMAIN matches |-> [A |-> Head(a_rows), B |-> matches[j]]]
          \o MergeOn(Tail(a_rows), b_rows, key)

\* merged[col + "_A"], merged[col + "_B"]
ColumnOf(merged, side, col) == [i \in DOMAIN merged |-> merged[i][side][col]]

\* value_counts(dropna=False).to_dict() of a column of the merged table
Counts(series) ==
  [v \in {series[i] : i \in DOMAIN series} |->
     Cardinality({i \in DOMAIN series : series[i] = v})]

RECURSIVE InsertFloat(_, _)
InsertFloat(x, sorted) ==
  IF sorted = <<>> THEN <<x>>
  ELSE IF FLe(x, Head(sorted)) THEN <<x>> \o sorted
  ELSE <<Head(sorted)>> \o InsertFloat(x, Tail(sorted))

RECURSIVE SortFloats(_)
SortFloats(values) ==
  IF values = <<>> THEN <<>>
  ELSE InsertFloat(Head(values), SortFloats(Tail(values)))

\* Series.median(): NaN skipped; NaN when nothing is left
SeriesMedian(series) ==
  LET s == SortFloats(SelectSeq(series, LAMBDA x : ~IsNaN(x)))
      n == Len(s)
  IN IF n = 0 THEN NaN
     ELSE IF n % 2 = 1 THEN s[(n + 1) \div 2]
     ELSE FDiv(FAdd(s[n \div 2], s[n \div 2 + 1]), F(2, 1))

\* Series.max(): NaN skipped; NaN when nothing is left
SeriesMaxSkipNaN(series) ==
  LET kept == SelectSeq(series, LAMBDA x : ~IsNaN(x))
  IN IF kept = <<>> THEN NaN ELSE SeriesMax(kept)

\* the six effect sizes of a metric: float(...) if len(...) else None
EffectSizes(vA, vB) ==
  LET dv == [i \in DOMAIN vA |-> FSub(vB[i], vA[i])]
      stat(series, Stat(_)) == IF Len(series) > 0 THEN Stat(series) ELSE None
  IN [median_A |-> stat(vA, SeriesMedian),
      median_B |-> stat(vB, SeriesMedian),
      median_delta_B_minus_A |-> stat(dv, SeriesMedian),
      worst_A |-> stat(vA, SeriesMaxSkipNaN),
      worst_B |-> stat(vB, SeriesMaxSkipNaN),
      worst_delta_B_minus_A |-> stat(dv, SeriesMaxSkipNaN)]

\* every row of A against every row of B, whatever their keys
MergedOfCrossJoin(a, b) ==
  LET pairs == [i \in 1..(Len(a.rows) * Len(b.rows)) |->
                  [A |-> a.rows[((i - 1) \div Len(b.rows)) + 1],
                   B |-> b.rows[((i - 1) % Len(b.rows)) + 1]]]
  IN IF b.rows = <<>> THEN <<>> ELSE pairs

MergedOf(a, b) ==
  LET key == IF a.has_shot /\ b.has_shot THEN "shot" ELSE "run_dir"
      kept(rows) == IF key = "shot" THEN SelectSeq(rows, LAMBDA r : r.shot # NoShot)
                    ELSE rows
  IN MergeOn(kept(a.rows), kept(b.rows), key)

\* compare_atlases: paired_metrics.csv and delta_scorecards.json
compare_atlases(a, b) ==
  LET key == IF a.has_shot /\ b.has_shot THEN "shot" ELSE "run_dir"
      merged == MergedOf(a, b)
      col(side, c) == ColumnOf(merged, side, c)
  IN [paired_metrics |-> merged,
      delta |->
        [schema_version |-> "v7.0.0",
         n_paired |-> Len(merged),
         key |-> key,
         tier_counts_A |-> Counts(col("A", "tier")),
         tier_counts_B |-> Counts(col("B", "tier")),
         dominant_family_counts_A |-> Counts(col("A", "dominant_family")),
         dominant_family_counts_B |-> Counts(col("B", "dominant_family")),
         relative_degradation |->
           EffectSizes(col("A", "relative_degradation"), col("B", "relative_degradation")),
         physics |->
           [tier_counts_A |-> Counts(col("A", "physics_tier")),
            tier_counts_B |-> Counts(col("B", "physics_tier")),
            max_violation |->
              EffectSizes(col("A", "physics_max_violation"),
                          col("B", "physics_max_violation"))],
         model_form |->
           [tier_counts_A |-> Counts(col("A", "mfe_tier")),
            tier_counts_B |-> Counts(col("B", "mfe_tier")),
            worst_relative_degradation |->
              EffectSizes(col("A", "mfe_worst_relative_degradation"),
                          col("B", "mfe_worst_relative_degradation"))]]]

(***************************************************************************)
(* SpecCompare: compare_atlases on two atlases, regression_guard on the    *)
(* delta record; then a run is added to atlas B and both are run again.    *)
(***************************************************************************)
MaxAtlasRows == 2

\* runs: two directories of shot 1, two directories without a shot number
CompareRunDirs ==
  { RunDir("runs", "shot_", <<1>>), RunDir("a", "shot_", <<1>>),
    RunDir("runs", "misc", <<>>), RunDir("a", "misc", <<>>) }

\* a row of atlas_metrics.csv: a RED run with audits, or a GREEN run without
CompareRow(p, red) ==
  [shot |-> infer_shot(p), run_dir |-> p,
   tier |-> IF red THEN "RED" ELSE "GREEN",
   relative_degradation |-> IF red THEN F(3, 10) ELSE F(1, 10),
   global_phase_label |-> IF red THEN "PHASE-BREAKING" ELSE "PHASE-CONSISTENT",
   dominant_family |-> NoneKey,
   robust_scenario_id |-> NoneKey,
   robust_score_total |-> NaN,
   physics_tier |-> IF red THEN "PHYSICS-RED" ELSE NoneKey,
   physics_max_violation |-> IF red THEN F(3, 10) ELSE NaN,
   mfe_tier |-> IF red THEN "MFE-RED" ELSE NoneKey,
   mfe_worst_relative_degradation |-> IF red THEN One ELSE NaN]

CompareRows == {CompareRow(p, red) : p \in CompareRunDirs, red \in BOOLEAN}

\* atlases of up to MaxAtlasRows runs, rows sorted by (shot, run_dir)
Atlases ==
  { [has_shot |-> TRUE, rows |-> sorted_entries(CHOOSE q \in [1..Cardinality(S) -> S] :
                                               {q[i] : i \in DOMAIN q} = S)] :
      S \in { X \in SUBSET CompareRows :
                /\ Cardinality(X) <= MaxAtlasRows
                /\ \A x, y \in X : x # y => x.run_dir # y.run_dir } }

InitCompare ==
  /\ pc = "compare"
  /\ atlas_a \in Atlases
  /\ atlas_b \in Atlases
  /\ cmp_thresholds \in { Thresholds(0, Zero, 0, Zero, 0, Zero),
                          Thresholds(1, F(2, 10), 1, F(2, 10), 1, F(2, 10)) }
  /\ cmp_delta = None
  /\ cmp_guard = None
  /\ cmp_added = None
  /\ IdleExceptCompare

\* compare-run
CompareAtlases ==
  /\ pc = "compare"
  /\ cmp_delta' = compare_atlases(atlas_a, atlas_b)
  /\ pc' = "guard"
  /\ UNCHANGED <<atlas_a, atlas_b, cmp_thresholds, cmp_guard, cmp_added>>
  /\ UNCHANGED exceptCompare

\* regression_guard(delta_path, out_path, thresholds)
GuardDelta ==
  /\ pc = "guard"
  /\ cmp_guard' = regression_guard(cmp_delta.delta, cmp_thresholds)
  /\ pc' = "guarded"
  /\ UNCHANGED <<atlas_a, atlas_b, cmp_thresholds, cmp_delta, cmp_added>>
  /\ UNCHANGED exceptCompare

\* atlas B is rebuilt from a corpus with one more run
AddRunToB ==
  /\ pc = "guarded"
  /\ cmp_added = None
  /\ \E row \in CompareRows :
       /\ \A i \in DOMAIN atlas_b.rows : atlas_b.rows[i].run_dir # row.run_dir
       /\ atlas_b' = [atlas_b EXCEPT !.rows = sorted_entries(Append(atlas_b.rows, row))]
       /\ cmp_added' = [row |-> row, guard_before |-> cmp_guard]
  /\ pc' = "compare"
  /\ UNCHANGED <<atlas_a, cmp_thresholds, cmp_delta, cmp_guard>>
  /\ UNCHANGED exceptCompare

NextCompare == CompareAtlases \/ GuardDelta \/ AddRunToB

SpecCompare == InitCompare /\ [][NextCompare]_vars

\* a run of A and a run of B are the same run: same shot id, or no shot id
\* on either side and the same run_dir
SameRun(ra, rb) ==
  \/ ra.shot # NoShot /\ ra.shot = rb.shot
  \/ ra.shot = NoShot /\ rb.shot = NoShot /\ ra.run_dir = rb.run_dir

ExpectedPairs ==
  { [A |-> atlas_a.rows[i], B |-> atlas_b.rows[j]] :
      <<i, j>> \in { x \in (DOMAIN atlas_a.rows) \X (DOMAIN atlas_b.rows) :
                       SameRun(atlas_a.rows[x[1]], atlas_b.rows[x[2]]) } }

\* the delta record is the one of the atlases as they are now
Compared == pc \in {"guard", "guarded"}

\* C25: compare_atlases pairs a run of A with a run of B exactly when they
\* have the same shot id or, both shot ids being absent, the same run_dir;
\* n_paired and the tier counts are taken over exactly these pairs.
C25_PairByShotOrRunDir ==
  Compared =>
    LET merged == cmp_delta.paired_metrics
    IN /\ {merged[i] : i \in DOMAIN merged} = ExpectedPairs
       /\ cmp_delta.delta.n_paired = Cardinality(ExpectedPairs)
       /\ \A t \in {"GREEN", "RED"} :
            /\ DictGet(cmp_delta.delta.tier_counts_A, t, 0)
                 = Cardinality({p \in ExpectedPairs : p.A.tier = t})
            /\ DictGet(cmp_delta.delta.tier_counts_B, t, 0)
                 = Cardinality({p \in ExpectedPairs : p.B.tier = t})

\* two atlases compared that both hold a run without shot id of the same run_dir
C25_Witness ==
  /\ Compared
  /\ \E i \in DOMAIN atlas_a.rows, j \in DOMAIN atlas_b.rows :
       /\ atlas_a.rows[i].shot = NoShot
       /\ atlas_b.rows[j].shot = NoShot
       /\ atlas_a.rows[i].run_dir = atlas_b.rows[j].run_dir
  /\ cmp_delta.delta.n_paired >= 1

\* the run added to B has no counterpart in A
AddedUnpaired ==
  /\ cmp_added # None
  /\ \A i \in DOMAIN atlas_a.rows : ~SameRun(atlas_a.rows[i], cmp_added.row)

\* C30: adding to atlas B a run that has no counterpart in atlas A changes
\* neither ok nor the reasons of regression_guard on the comparison.
C30_UnpairedRunIgnored ==
  (pc = "guarded" /\ AddedUnpaired) => cmp_guard = cmp_added.guard_before

\* a RED run without counterpart was added to B, the comparison has pairs,
\* and the guard has decided again
C30_Witness ==
  /\ pc = "guarded"
  /\ AddedUnpaired
  /\ cmp_added.row.tier = "RED"
  /\ cmp_delta.delta.n_paired >= 1
  /\ cmp_guard.ok

(***************************************************************************)
(* SpecCli: main() dispatching the regression-guard command.               *)
(***************************************************************************)
\* def regression_guard(delta_path, out_path, max_red_increase=0, ...)
regression_guard_parameters ==
  {"delta_path", "out_path", "max_red_increase", "max_median_degradation_increase",
   "max_physics_red_increase", "max_physics_median_violation_increase",
   "max_mfe_red_increase", "max_mfe_median_worst_rel_deg_increase"}

regression_guard_required == {"delta_path", "out_path"}

\* a Python call by keywords: TypeError on an unexpected keyword or on a
\* required parameter left without argument, else the arguments as given
BindKeywords(parameters, required, kwargs) ==
  IF \E k \in DOMAIN kwargs : k \notin parameters
    THEN [raised |-> "TypeError"]
  ELSE IF \E p \in required : p \notin DOMAIN kwargs
    THEN [raised |-> "TypeError"]
  ELSE [bound |-> kwargs]

\* the keywords main() passes to regression_guard
GuardCallKeywords(args) ==
  [delta_scorecards_path |-> args.delta,
   out_path |-> args.out,
   max_red_increase |-> args.max_red_increase,
   max_median_degradation_increase |-> args.max_median_degradation_increase]

\* main(argv) for args.cmd == "regression-guard"
main_regression_guard(args, delta_file) ==
  LET call == BindKeywords(regression_guard_parameters, regression_guard_required,
                           GuardCallKeywords(args))
  IN IF "raised" \in DOMAIN call THEN call
     ELSE LET b == call.bound
              th == Thresholds(DictGet(b, "max_red_increase", 0),
                               DictGet(b, "max_median_degradation_increase", Zero),
                               DictGet(b, "max_physics_red_increase", 0),
                               DictGet(b, "max_physics_median_violation_increase", Zero),
                               DictGet(b, "max_mfe_red_increase", 0),
                               DictGet(b, "max_mfe_median_worst_rel_deg_increase", Zero))
              out == regression_guard(delta_file, th)
          IN [status |-> IF out.ok THEN 0 ELSE 6]

\* thresholds given on the command line (argparse defaults 0 and 0.0)
CliThresholds ==
  { Thresholds(0, Zero, 0, Zero, 0, Zero),
    Thresholds(1, F(2, 10), 0, Zero, 0, Zero),
    Thresholds(0, Zero, 1, F(2, 10), 0, Zero),
    Thresholds(0, Zero, 0, Zero, 1, F(2, 10)),
    Thresholds(1, F(2, 10), 1, F(2, 10), 1, F(2, 10)) }

InitCli ==
  /\ pc = "main"
  /\ \E th \in CliThresholds :
       cli_args = [cmd |-> "regression-guard", delta |-> "cmp/delta_scorecards.json",
                   out |-> "cmp/regression_guard.json",
                   max_red_increase |-> th.max_red_increase,
                   max_median_degradation_increase |-> th.max_median_degradation_increase,
                   max_physics_red_increase |-> th.max_physics_red_increase,
                   max_physics_median_violation_increase |->
                     th.max_physics_median_violation_increase,
                   max_mfe_red_increase |-> th.max_mfe_red_increase,
                   max_mfe_median_worst_rel_deg_increase |->
                     th.max_mfe_median_worst_rel_deg_increase]
  /\ \E a \in TierCounts, b \in TierCounts, phy \in PhysicsSections,
        mfe \in {None, [tier_counts_A |-> [t \in {"MFE-GREEN"} |-> 2],
                        tier_counts_B |-> [t \in {"MFE-GREEN", "MFE-RED"} |-> 1],
                        worst_relative_degradation |-> Medians(F(1, 10), F(3, 10))]} :
       cli_delta = [tier_counts_A |-> a, tier_counts_B |-> b,
                    relative_degradation |-> Medians(F(1, 10), F(3, 10)),
                    physics |-> phy, model_form |-> mfe]
  /\ cli_exit = None
  /\ IdleExceptCli

MainRegressionGuard ==
  /\ pc = "main"
  /\ cli_exit' = main_regression_guard(cli_args, cli_delta)
  /\ pc' = "exit"
  /\ UNCHANGED <<cli_args, cli_delta>>
  /\ UNCHANGED exceptCli

NextCli == MainRegressionGuard

SpecCli == InitCli /\ [][NextCli]_vars

\* the six thresholds as given on the command line
CommandLineThresholds ==
  Thresholds(cli_args.max_red_increase, cli_args.max_median_degradation_increase,
             cli_args.max_physics_red_increase,
             cli_args.max_physics_median_violation_increase,
             cli_args.max_mfe_red_increase,
             cli_args.max_mfe_median_worst_rel_deg_increase)

\* C26: the regression-guard command runs regression_guard on the delta file
\* with the six thresholds of the command line and returns 0 when the guard
\* result is ok, a non-zero status otherwise.
C26_CliRunsGuard ==
  pc = "exit" =>
    /\ "status" \in DOMAIN cli_exit
    /\ (cli_exit.status = 0) <=> regression_guard(cli_delta, CommandLineThresholds).ok

\* the command has run on a delta the guard accepts under the command line's
\* physics and model-form thresholds, which are not the defaults
C26_Witness ==
  /\ pc = "exit"
  /\ cli_args.max_physics_red_increase = 1
  /\ cli_args.max_mfe_red_increase = 1
  /\ regression_guard(cli_delta, CommandLineThresholds).ok

(***************************************************************************)
(* SpecOrder: the window loop of robustness_run with the scenarios of a    *)
(* window, and the windows, completing in any order.  A scenarios          *)
(* directory is the sequence of its entries in the order the file system   *)
(* lists them, taken to be the order of creation.                          *)
(***************************************************************************)
MaxOrderWindows == 2   \* windows of the library of a run

\* the directory as the file system lists it
unsorted_iterdir(listing) == listing

\* sorted(scenarios_dir.iterdir()): the entries by directory name
sorted_iterdir(listing) ==
  LET ids == SortedIds({listing[i].sid : i \in DOMAIN listing})
  IN [i \in DOMAIN ids |->
        listing[CHOOSE j \in DOMAIN listing : listing[j].sid = ids[i]]]

\* load_scenario_metrics on a directory listing
load_scenario_metrics_of(listing) ==
  LET ps == sorted_iterdir(listing)
  IN [i \in DOMAIN ps |->
        LET mm == ps[i].metrics
        IN [scenario_id |-> mm.scenario_id, family |-> mm.family,
            window_id |-> mm.window_id, name |-> mm.name,
            ok |-> mm.score.ok, n_scored |-> mm.score.n_scored,
            score_total |-> mm.score.score_total]]

\* the row robustness_run appends to per_window_summary for a window
SummaryRowOf(w, table, pol) ==
  LET chosen == select_robust_choice(table, pol)
      stab == stability_tiering(table, DefaultGreen, DefaultYellow)
  IN IndexRow(w, DictGet(chosen, "policy", NoneKey),
              DictGet(chosen, "scenario_id", NoneKey),
              DictGet(chosen, "score_total", Inf),
              DictGet(stab, "tier", NoneKey),
              DictGet(stab, "relative_degradation", None))

\* windows in library order (dt ascending); as strings "+0.0000" sorts first
OrderLibrary ==
  << WindowDef(<<Fmt4(-1), Fmt4(0)>>, 49, 59, "baseline-shift-expand"),
     WindowDef(<<Fmt4(0), Fmt4(0)>>, 50, 60, "baseline-shift-expand"),
     WindowDef(<<Fmt4(1), Fmt4(0)>>, 51, 61, "baseline-shift-expand") >>

\* one contract whose measured and synthetic traces differ
OrderContracts ==
  << DiagnosticContract(ContractNames[1], TraceSpec(Csv(TRUE, 40, 70, 2), One, 1),
                        TraceSpec(Csv(TRUE, 40, 70, 1), One, 1)) >>

OrderScenarios(k) ==
  generate_scenarios_for_window(ord_windows[k], ord_contracts, TRUE, TRUE, <<9000>>, FALSE)

InitOrder ==
  /\ pc = "windows"
  /\ \E n \in 1..MaxOrderWindows : ord_windows = SubSeq(OrderLibrary, 1, n)
  /\ ord_contracts = OrderContracts
  /\ ord_policy \in Policies
  /\ ord_listing = [k \in DOMAIN ord_windows |-> <<>>]
  /\ ord_tables = [k \in DOMAIN ord_windows |-> None]
  /\ ord_summary = <<>>
  /\ ord_out = None
  /\ IdleExceptOrder

\* run_scenario of any scenario of any window that has not run yet
OrderRunScenario ==
  /\ pc = "windows"
  /\ \E k \in DOMAIN ord_windows :
       /\ ord_tables[k] = None
       /\ \E i \in DOMAIN OrderScenarios(k) :
            LET entry == run_scenario(ord_windows[k], OrderScenarios(k)[i], ord_contracts)
            IN /\ \A j \in DOMAIN ord_listing[k] : ord_listing[k][j].sid # entry.sid
               /\ ord_listing' = [ord_listing EXCEPT ![k] = Append(@, entry)]
  /\ UNCHANGED <<pc, ord_windows, ord_contracts, ord_policy, ord_tables, ord_summary, ord_out>>
  /\ UNCHANGED exceptOrder

\* aggregate, choose and tier any window whose scenarios have all run
OrderAggregateWindow ==
  /\ pc = "windows"
  /\ \E k \in DOMAIN ord_windows :
       /\ ord_tables[k] = None
       /\ Len(ord_listing[k]) = Len(OrderScenarios(k))
       /\ LET table == load_scenario_metrics_of(ord_listing[k])
          IN /\ ord_tables' = [ord_tables EXCEPT ![k] = [rows |-> table]]
             /\ ord_summary' = Append(ord_summary,
                                      SummaryRowOf(ord_windows[k], table, ord_policy))
  /\ UNCHANGED <<pc, ord_windows, ord_contracts, ord_policy, ord_listing, ord_out>>
  /\ UNCHANGED exceptOrder

\* per_window_summary.csv and continuity_metrics.csv after the last window
OrderWriteSummaries ==
  /\ pc = "windows"
  /\ \A k \in DOMAIN ord_windows : ord_tables[k] # None
  /\ ord_out' = [per_window_summary |-> sort_by_window_id(ord_summary),
                 continuity_metrics |-> ContinuityRows(ord_summary)]
  /\ pc' = "done"
  /\ UNCHANGED <<ord_windows, ord_contracts, ord_policy, ord_listing, ord_tables, ord_summary>>
  /\ UNCHANGED exceptOrder

NextOrder == OrderRunScenario \/ OrderAggregateWindow \/ OrderWriteSummaries

SpecOrder == InitOrder /\ [][NextOrder]_vars

AscendingScenarioIds(rows) ==
  \A i \in 1..(Len(rows) - 1) : IdLess(rows[i].scenario_id, rows[i + 1].scenario_id)

AscendingWindowIds(rows) ==
  \A i \in 1..(Len(rows) - 1) : WindowIdLess(rows[i].window_id, rows[i + 1].window_id)

\* the tables of the run that executes scenarios and windows in library order
InOrderTable(k) ==
  load_scenario_metrics_of([i \in DOMAIN OrderScenarios(k) |->
     run_scenario(ord_windows[k], OrderScenarios(k)[i], ord_contracts)])

InOrderSummary ==
  [k \in DOMAIN ord_windows |-> SummaryRowOf(ord_windows[k], InOrderTable(k), ord_policy)]

\* C27: whatever the order in which scenarios and windows complete, each
\* window's aggregated_metrics.csv lists its scenarios in ascending
\* scenario_id order, per_window_summary.csv and continuity_metrics.csv list
\* the windows in ascending window_id order, and all three are the tables of
\* the run that executes in library order.
C27_TablesOrderIndependent ==
  pc = "done" =>
    /\ \A k \in DOMAIN ord_windows :
         /\ AscendingScenarioIds(ord_tables[k].rows)
         /\ ord_tables[k].rows = InOrderTable(k)
    /\ AscendingWindowIds(ord_out.per_window_summary)
    /\ AscendingWindowIds(ord_out.continuity_metrics)
    /\ ord_out.per_window_summary = sort_by_window_id(InOrderSummary)
    /\ ord_out.continuity_metrics = ContinuityRows(InOrderSummary)

\* a finished run of two windows in which the scenarios of a window did not
\* complete in the order of their ids and the windows did not complete in
\* library order
C27_Witness ==
  /\ pc = "done"
  /\ Len(ord_windows) = 2
  /\ \E k \in DOMAIN ord_windows :
       \E j \in 1..(Len(ord_listing[k]) - 1) :
         IdLess(ord_listing[k][j + 1].sid, ord_listing[k][j].sid)
  /\ ord_summary # InOrderSummary

\* C28: on every non-empty table select_robust_choice returns the same
\* scenario_id and score_total under quantile75 as under maximin, and the
\* choice made under either policy is that scenario.
C28_PoliciesAgree ==
  (pc \in {"tier", "done"} /\ df # <<>>) =>
    LET q == select_robust_choice(df, "quantile75")
        m == select_robust_choice(df, "maximin")
    IN /\ q.scenario_id = m.scenario_id
       /\ q.score_total = m.score_total
       /\ choice.scenario_id = m.scenario_id
       /\ choice.score_total = m.score_total

\* quantile75 has chosen on a table with a finite threshold that leaves out
\* some scenario and admits more than one
C28_Witness ==
  /\ pc = "done"
  /\ policy = "quantile75"
  /\ df # <<>>
  /\ IsFinite(choice.threshold)
  /\ \E i \in DOMAIN df : FLt(choice.threshold, df[i].score_total)
  /\ \E i \in DOMAIN df : /\ FLe(df[i].score_total, choice.threshold)
                          /\ FLt(choice.score_total, df[i].score_total)

(***************************************************************************)
(* SpecTriangle: robustness_run, run_physics_audit, run_model_form_audit   *)
(* and build_consistency_triangle_pack called in any order, any number of  *)
(* times, on one run directory.  The directory is the set of the paths     *)
(* that exist under it; the library of the run has one window, w1.         *)
(***************************************************************************)
Rob == "robustness_v4"

\* what robustness_run has written when the window loop is entered
RobBeforeLoop ==
  {Rob, "robustness_v4/window_library.json", "robustness_v4/phase_timeline.json"}

\* ... and when select_robust_choice is called for the first window
RobBeforeChoice ==
  RobBeforeLoop \cup
  {"robustness_v4/windows", "robustness_v4/windows/w1",
   "robustness_v4/windows/w1/scenario_library.json",
   "robustness_v4/windows/w1/scenarios",
   "robustness_v4/windows/w1/aggregated_metrics.csv"}

\* ... and when it returns
RobComplete ==
  RobBeforeChoice \cup
  {"robustness_v4/windows/w1/robust_choice.json",
   "robustness_v4/windows/w1/stability_scorecard.json",
   "robustness_v4/per_window_summary.csv", "robustness_v4/continuity_metrics.csv",
   "robustness_v4/phase_consistency_scorecard.json",
   "robustness_v4/phase_consistency_summary.md",
   "robustness_v4/sensitivity_attribution.json",
   "robustness_v4/dominant_failure_modes.md", "robustness_v4/plots_manifest.json",
   "robustness_v4/global_robust_choice.json", "robustness_v4/robust_summary.md"}

\* robustness_run(run_dir, policy): the paths afterwards and the outcome.
\* has_inputs: inputs/window.json and the resolved contracts exist;
\* empty_library: every window of the library was dropped.
robustness_run_on(files, has_inputs, empty_library, pol) ==
  IF ~has_inputs
    THEN [files |-> files, result |-> [raised |-> "FileNotFoundError"]]
  ELSE IF empty_library
    THEN [files |-> files \cup RobBeforeLoop, result |-> [raised |-> "KeyError"]]
  ELSE IF pol \notin Policies
    THEN [files |-> files \cup RobBeforeChoice,
          result |-> [raised |-> "ValueError: unknown policy"]]
  ELSE [files |-> files \cup RobComplete, result |-> [returned |-> Rob]]

PhysicsOutputs ==
  {"robustness_v4/physics_audit",
   "robustness_v4/physics_audit/physics_consistency_scorecard.json",
   "robustness_v4/physics_audit/per_window_physics.csv",
   "robustness_v4/physics_audit/physics_consistency_summary.md",
   "robustness_v4/windows/w1/closure_tests.json",
   "robustness_v4/windows/w1/residual_budget.json"}

\* run_physics_audit(run_dir, config)
run_physics_audit_on(files) ==
  IF Rob \notin files
    THEN [files |-> files, result |-> [raised |-> "FileNotFoundError: robustness_v4"]]
  ELSE IF "robustness_v4/phase_timeline.json" \notin files
    THEN [files |-> files, result |-> [raised |-> "FileNotFoundError: phase timeline"]]
  ELSE IF "robustness_v4/windows" \notin files
    THEN [files |-> files, result |-> [raised |-> "FileNotFoundError: windows"]]
  ELSE [files |-> files \cup PhysicsOutputs, result |-> [returned |-> "PhysicsScorecard"]]

ModelFormDir == {Rob, "robustness_v4/model_form"}

\* run_model_form_audit(run_dir, cfg).  holdout_match: a scenario directory
\* name contains a held-out diagnostic id, so _scenario_metric is called.
run_model_form_audit_on(files, holdout_match) ==
  LET split == files \cup ModelFormDir \cup {"robustness_v4/model_form/cv_splits.json"}
  IN IF "robustness_v4/windows" \notin files
       THEN [files |-> split, result |-> [raised |-> "FileNotFoundError: windows"]]
     ELSE IF holdout_match /\ "robustness_v4/windows/w1/scenarios" \in files
       THEN [files |-> split, result |-> [raised |-> "TypeError"]]
     ELSE [files |-> split \cup {"robustness_v4/model_form/forward_checks.csv",
                                 "robustness_v4/model_form/model_form_scorecard.json",
                                 "robustness_v4/model_form/model_form_summary.md"},
           result |-> [returned |-> "ModelFormScorecard"]]

\* build_consistency_triangle_pack(run_dir): the pack's files, or the exception
build_consistency_triangle_pack(files) ==
  IF Rob \notin files
    THEN [raised |-> "FileNotFoundError: robustness_v4"]
  ELSE IF "robustness_v4/physics_audit" \notin files
    THEN [raised |-> "FileNotFoundError: physics_audit"]
  ELSE IF "robustness_v4/model_form" \notin files
    THEN [raised |-> "FileNotFoundError: model_form"]
  ELSE [returned |-> "CONSISTENCY_TRIANGLE_REVIEWER_PACK",
        copied |-> files]

InitTriangle ==
  /\ pc = "stages"
  /\ tri_files = {}
  /\ tri_done = {}
  /\ tri_aborted = FALSE
  /\ tri_issued = {}
  /\ tri_pack = None
  /\ tri_result = None
  /\ IdleExceptTriangle

RobustnessRun ==
  /\ pc = "stages"
  /\ \E has_inputs \in BOOLEAN, empty_library \in BOOLEAN, pol \in Policies \cup {"median"} :
       LET r == robustness_run_on(tri_files, has_inputs, empty_library, pol)
       IN /\ tri_files' = r.files
          /\ tri_result' = [stage |-> "robustness_run", outcome |-> r.result]
          /\ tri_done' = IF "returned" \in DOMAIN r.result
                         THEN tri_done \cup {"robustness_run"} ELSE tri_done
          /\ tri_aborted' = (tri_aborted \/ ("raised" \in DOMAIN r.result /\ has_inputs))
  /\ UNCHANGED <<pc, tri_issued, tri_pack>>
  /\ UNCHANGED exceptTriangle

RunPhysicsAudit ==
  /\ pc = "stages"
  /\ LET r == run_physics_audit_on(tri_files)
     IN /\ tri_files' = r.files
        /\ tri_result' = [stage |-> "run_physics_audit", outcome |-> r.result]
        /\ IF "returned" \in DOMAIN r.result
           THEN /\ tri_done' = tri_done \cup {"run_physics_audit"}
                /\ tri_issued' = tri_issued \cup {"physics_consistency_scorecard.json"}
           ELSE UNCHANGED <<tri_done, tri_issued>>
  /\ UNCHANGED <<pc, tri_aborted, tri_pack>>
  /\ UNCHANGED exceptTriangle

RunModelFormAudit ==
  /\ pc = "stages"
  /\ \E holdout_match \in BOOLEAN :
       LET r == run_model_form_audit_on(tri_files, holdout_match)
       IN /\ tri_files' = r.files
          /\ tri_result' = [stage |-> "run_model_form_audit", outcome |-> r.result]
          /\ IF "returned" \in DOMAIN r.result
             THEN /\ tri_done' = tri_done \cup {"run_model_form_audit"}
                  /\ tri_issued' = tri_issued \cup {"model_form_scorecard.json"}
             ELSE UNCHANGED <<tri_done, tri_issued>>
  /\ UNCHANGED <<pc, tri_aborted, tri_pack>>
  /\ UNCHANGED exceptTriangle

BuildTrianglePack ==
  /\ pc = "stages"
  /\ LET r == build_consistency_triangle_pack(tri_files)
     IN /\ tri_result' = [stage |-> "build_consistency_triangle_pack", outcome |-> r]
        /\ tri_pack' = IF "returned" \in DOMAIN r THEN r ELSE tri_pack
  /\ UNCHANGED <<pc, tri_files, tri_done, tri_aborted, tri_issued>>
  /\ UNCHANGED exceptTriangle

NextTriangle == RobustnessRun \/ RunPhysicsAudit \/ RunModelFormAudit \/ BuildTrianglePack

SpecTriangle == InitTriangle /\ [][NextTriangle]_vars

\* C29: the pack is built only after robustness_run, run_physics_audit and
\* run_model_form_audit have each returned normally on the run directory;
\* while robustness_run has not returned normally on it (it never ran, or
\* aborted leaving partial artifacts) no audit stage issues a scorecard and
\* no pack is built.
C29_PackAfterAllStages ==
  /\ tri_pack # None =>
       {"robustness_run", "run_physics_audit", "run_model_form_audit"} \subseteq tri_done
  /\ "robustness_run" \notin tri_done => (tri_issued = {} /\ tri_pack = None)

\* robustness_run aborted at its first window and never completed, both
\* audits ran afterwards, and the pack builder has returned a pack
C29_Witness ==
  /\ tri_aborted
  /\ "robustness_run" \notin tri_done
  /\ "robustness_v4/windows/w1/aggregated_metrics.csv" \in tri_files
  /\ {"run_physics_audit", "run_model_form_audit"} \subseteq tri_done
  /\ tri_pack # None

====
